---------------------------- MODULE Spec2Model ----------------------------
(***************************************************************************)
(* Grading-response reconciliation pipeline of the DSE AI-teacher backend  *)
(* (backend/app/services/ai_teacher.py, backend/app/models/dse_models.py). *)
(*                                                                         *)
(* Texts are sequences of one-character strings, so that strip(), lower()  *)
(* and substring search are computed and not assumed.  A Chinese character *)
(* is written as one token: its pinyin with the tone number, suffixed _t   *)
(* when the source writes the traditional form (zheng4 que4 = simplified   *)
(* "correct", zheng4 que4_t = traditional "correct"); fw. fw, fw: are the  *)
(* full-width stop, comma and colon, [ and ] the lenticular brackets.      *)
(* None and the empty                                                      *)
(* string are both written <<>>: the code reads optional strings only      *)
(* through truthiness tests, which do not tell them apart.                 *)
(***************************************************************************)
EXTENDS Integers, Sequences, FiniteSets, TLC

VARIABLES
    pc,           \* position of grade_answers
    questions,    \* List[DSEQuestion]
    user_answers, \* List[UserAnswer], keyed by question id
    time_spent,   \* elapsed seconds given by the caller
    upstream,     \* what the external completion call will do for this request
    context,      \* context['sub_questions'] of _build_grading_context
    result_data,  \* the parsed payload (dict) inside _parse_ai_response
    response,     \* the AITeacherResponse under construction / returned
    fallback,     \* the arguments the Fallback Grader computed
    outcome,      \* "none" | "report" | "raised": what grade_answers gave its caller
    tpc,          \* position of _parse_ai_response in the text of one reply
    ai_response,  \* the raw text of the reply
    json_str,     \* the extracted JSON candidate, or None
    strategy,     \* index of the parsing strategy to try next
    parsed,       \* what the parsing strategies produced
    submission_store, \* routes/dse.py: submission id -> submission record
    now,          \* the wall clock, in ticks
    grading,      \* per request: position of its process_grading task, and its id
    active_tasks, \* TTSTaskManager.active_tasks
    streams       \* per synthesize_text_stream call: its position

vars == <<pc, questions, user_answers, time_spent, upstream, context,
          result_data, response, fallback, outcome,
          tpc, ai_response, json_str, strategy, parsed,
          submission_store, now, grading, active_tasks, streams>>

---------------------------------------------------------------------------
(* Bounds of the checked instances *)

MaxQuestions == 3
MaxResults == 2

---------------------------------------------------------------------------
(* Text primitives: str.strip, str.lower, str.upper, the in operator      *)

IsSpace(c) == c \in {" ", "nl"}

RECURSIVE lstrip(_)
lstrip(s) == IF s # <<>> /\ IsSpace(Head(s)) THEN lstrip(Tail(s)) ELSE s

RECURSIVE rstrip(_)
rstrip(s) ==
    IF s # <<>> /\ IsSpace(s[Len(s)]) THEN rstrip(SubSeq(s, 1, Len(s) - 1)) ELSE s

strip(s) == rstrip(lstrip(s))

lower(s) ==
    LET lower_char(c) ==
            CASE c = "A" -> "a" [] c = "B" -> "b" [] c = "C" -> "c" [] OTHER -> c
    IN [i \in 1..Len(s) |-> lower_char(s[i])]

upper(s) ==
    LET upper_char(c) ==
            CASE c = "a" -> "A" [] c = "b" -> "B" [] c = "c" -> "C" [] OTHER -> c
    IN [i \in 1..Len(s) |-> upper_char(s[i])]

\* pat in s
contains(s, pat) ==
    \E i \in 1..(Len(s) - Len(pat) + 1) : SubSeq(s, i, i + Len(pat) - 1) = pat

\* The 'not answered' sentinel
NOT_ANSWERED == <<"wei4", "zuo4", "da2">>

\* A raw answer the code takes as given: truthy, not blank, not a placeholder
is_valid_answer(raw) ==
    /\ raw # <<>>
    /\ strip(raw) # <<>>
    /\ raw # <<"undefined">>
    /\ raw # <<"null">>

clean_answer(raw) == IF is_valid_answer(raw) THEN strip(raw) ELSE NOT_ANSWERED

---------------------------------------------------------------------------
(* Scores: floats are kept as exact fractions n/d with d > 0              *)

Frac(n, d) == [n |-> n, d |-> d]

FracLeq(a, b) == a.n * b.d <= b.n * a.d

FracLt(a, b) == a.n * b.d < b.n * a.d

FracEq(a, b) == a.n * b.d = b.n * a.d

\* abs(a - b) > t
FracDiffGt(a, b, t) ==
    LET Abs(x) == IF x < 0 THEN -x ELSE x
    IN Abs(a.n * b.d - b.n * a.d) * t.d > t.n * a.d * b.d

\* c / t if t > 0 else 0
ratio(c, t) == IF t > 0 THEN Frac(c, t) ELSE Frac(0, 1)

---------------------------------------------------------------------------
(* Questions and user answers                                             *)
(*   question: [id, type, skillType, correctAnswer, units, timelineEvents]*)
(*     units is subQuestions (fill-in-blank: key = sub-question id, which *)
(*     also stands for its questionText) or correctAnswers.items()        *)
(*     (timeline-sequencing: key = position), each [key, correctAnswer]   *)
(*   answer:   [question_id, selected_option, fill_in_answers,            *)
(*              timeline_answers], the two dicts as functions key -> text *)

MULTIPLE_CHOICE == "multiple-choice"
FILL_IN_BLANK == "fill-in-blank"
TIMELINE_SEQUENCING == "timeline-sequencing"

\* answer_map = {ans.question_id: ans for ans in user_answers}: the last wins
has_answer(answers, qid) == \E i \in 1..Len(answers) : answers[i].question_id = qid

answer_map(answers, qid) ==
    LET NoAnswer == [question_id |-> 0, selected_option |-> <<>>,
                     fill_in_answers |-> <<>>, timeline_answers |-> <<>>]
    IN IF has_answer(answers, qid)
       THEN LET last == CHOOSE i \in 1..Len(answers) :
                          /\ answers[i].question_id = qid
                          /\ \A j \in (i + 1)..Len(answers) : answers[j].question_id # qid
            IN answers[last]
       ELSE NoAnswer

\* d.get(key, "")
dict_get(d, key) == IF key \in DOMAIN d THEN d[key] ELSE <<>>

\* "; ".join(parts)
RECURSIVE join(_)
join(parts) ==
    IF parts = <<>> THEN <<>>
    ELSE IF Len(parts) = 1 THEN parts[1]
    ELSE parts[1] \o <<";", " ">> \o join(Tail(parts))

format_user_answer(q, answers) ==
    LET \* answer or 'not answered'
        or_not_answered(a) == IF a # <<>> THEN a ELSE NOT_ANSWERED
    IN LET ua == answer_map(answers, q.id) IN
       IF ~has_answer(answers, q.id) THEN NOT_ANSWERED
       ELSE IF q.type = MULTIPLE_CHOICE THEN clean_answer(ua.selected_option)
       ELSE IF q.type = FILL_IN_BLANK THEN
           IF DOMAIN ua.fill_in_answers = {} THEN NOT_ANSWERED
           ELSE join([i \in 1..Len(q.units) |->
                        <<q.units[i].key, ":", " ">>
                          \o or_not_answered(dict_get(ua.fill_in_answers, q.units[i].key))])
       ELSE IF q.type = TIMELINE_SEQUENCING THEN
           IF DOMAIN ua.timeline_answers = {} THEN NOT_ANSWERED
           ELSE LET ev == SelectSeq(q.timelineEvents, LAMBDA p : p # "fixed") IN
                join([i \in 1..Len(ev) |->
                        <<ev[i], ":", " ">>
                          \o or_not_answered(dict_get(ua.timeline_answers, ev[i]))])
       ELSE NOT_ANSWERED

format_correct_answer(q) ==
    IF q.type = MULTIPLE_CHOICE THEN q.correctAnswer
    ELSE join([i \in 1..Len(q.units) |->
                 <<q.units[i].key, ":", " ">> \o q.units[i].correctAnswer])

\* The sub-question items one question contributes, numbered from `first`
sub_items(q, answers, first) ==
    LET ua == answer_map(answers, q.id)
        answered == has_answer(answers, q.id)
    IN
    IF q.type = FILL_IN_BLANK /\ q.units # <<>> THEN
        [i \in 1..Len(q.units) |->
            [sub_question_number |-> first + i - 1,
             type |-> "fill-in-blank-sub",
             skill_type |-> q.skillType,
             correct_answer |-> q.units[i].correctAnswer,
             user_answer |-> clean_answer(
                 IF answered /\ DOMAIN ua.fill_in_answers # {}
                 THEN dict_get(ua.fill_in_answers, q.units[i].key) ELSE <<>>)]]
    ELSE IF q.type = TIMELINE_SEQUENCING /\ q.units # <<>> THEN
        [i \in 1..Len(q.units) |->
            [sub_question_number |-> first + i - 1,
             type |-> "timeline-sequencing-sub",
             skill_type |-> q.skillType,
             correct_answer |-> q.units[i].correctAnswer,
             user_answer |-> clean_answer(
                 IF answered THEN dict_get(ua.timeline_answers, q.units[i].key)
                 ELSE <<>>)]]
    ELSE
        << [sub_question_number |-> first,
            type |-> q.type,
            skill_type |-> q.skillType,
            correct_answer |-> format_correct_answer(q),
            user_answer |->
                IF ~answered THEN NOT_ANSWERED
                ELSE IF q.type = MULTIPLE_CHOICE THEN clean_answer(ua.selected_option)
                ELSE format_user_answer(q, answers)] >>

\* context['sub_questions']: the ground-truth items, numbered by a running counter
RECURSIVE build_sub_questions(_, _, _)
build_sub_questions(qs, answers, first) ==
    IF qs = <<>> THEN <<>>
    ELSE LET items == sub_items(Head(qs), answers, first)
         IN items \o build_sub_questions(Tail(qs), answers, first + Len(items))

build_grading_context(qs, answers) == build_sub_questions(qs, answers, 1)

---------------------------------------------------------------------------
(* Answer Reconciler: _validate_and_fix_user_answers                      *)

\* s.replace(old, new): every non-overlapping occurrence, left to right
RECURSIVE replace(_, _, _)
replace(s, old, new) ==
    IF old = <<>> \/ Len(s) < Len(old) THEN s
    ELSE IF SubSeq(s, 1, Len(old)) = old
         THEN new \o replace(SubSeq(s, Len(old) + 1, Len(s)), old, new)
         ELSE <<Head(s)>> \o replace(Tail(s), old, new)

\* s.find(pat) + 1 (0 when absent)
find(s, pat) ==
    IF contains(s, pat)
    THEN CHOOSE i \in 1..(Len(s) - Len(pat) + 1) :
           /\ SubSeq(s, i, i + Len(pat) - 1) = pat
           /\ \A j \in 1..(i - 1) : SubSeq(s, j, j + Len(pat) - 1) # pat
    ELSE 0

\* Length of the longest prefix of s free of the character x
RECURSIVE run_without(_, _)
run_without(s, x) ==
    IF s = <<>> \/ Head(s) = x THEN 0 ELSE 1 + run_without(Tail(s), x)

\* re.sub(pre [^x]* mid [^x]* (x)?, rep, s), the trailing x required iff closed.
\* Both stars are greedy and mid holds no x, so a match at a position spans
\* pre, the whole x-free run after it (which must hold mid), and the closing x.
RECURSIVE re_sub(_, _, _, _, _, _)
re_sub(s, pre, mid, x, closed, rep) ==
    IF Len(s) < Len(pre) THEN s
    ELSE IF SubSeq(s, 1, Len(pre)) = pre
         THEN LET rest == SubSeq(s, Len(pre) + 1, Len(s))
                  run == run_without(rest, x)
                  hit == /\ contains(SubSeq(rest, 1, run), mid)
                         /\ (closed => run < Len(rest))
                  used == IF closed THEN run + 1 ELSE run
              IN IF hit
                 THEN rep \o re_sub(SubSeq(rest, used + 1, Len(rest)),
                                    pre, mid, x, closed, rep)
                 ELSE <<Head(s)>> \o re_sub(Tail(s), pre, mid, x, closed, rep)
         ELSE <<Head(s)>> \o re_sub(Tail(s), pre, mid, x, closed, rep)

\* Phrases of the source, character by character (_t: traditional form)
YourAnswer == <<"ni3", "de5", "da2", "an4", ":", " ">>
UserAnswerQ == <<"yong4", "hu4", "da2", "an4", ":", "'">>
StudentAnswerS == <<"xue2", "sheng1", "da2", "an4">>
StudentAnswerT == <<"xue2_t", "sheng1", "da2", "an4">>
AnswerWord == <<"da2", "an4">>
FullyCorrectS == <<"wan2", "quan2", "zheng4", "que4">>
FullyCorrectT == <<"wan2", "quan2", "zheng4", "que4_t">>
ErrorT == <<"cuo4_t", "wu4_t">>
ErrorAnalysisS == <<"[", "cuo4", "wu4", "fen1", "xi1", "]">>
ErrorAnalysisT == <<"[", "cuo4_t", "wu4_t", "fen1", "xi1", "]">>
FoundInTextT == FullyCorrectT
    \o <<"fw,", "zhun3_t", "que4_t", "wan2_c", "dao4", "zo2", "yuan2", "wen2", "zhong1">>
FoundInTextS == FullyCorrectS
    \o <<"fw,", "zhun3", "que4", "di4", "cong2", "yuan2", "wen2", "zhong1",
         "zhao3", "dao4", "le5">>
FoundSynonymT ==
    <<"zhun3_t", "que4_t", "wan2_c", "dao4", "zo2", "yuan2", "wen2", "zhong1",
      "yu3_t", "restrict", "dui4_t", "ying_t", "ge3", "tong2", "yi4_t", "ci2_t">>
Unable == <<"wei4", "neng2">>
positive_phrases ==
    << <<"zhun3_t", "que4_t", "gam2">>,
       <<"zhun3_t", "que4_t", "di4">>,
       <<"zheng4", "que4_t", "di4">>,
       <<"cheng2", "gong1", "di4">>,
       <<"zhun3_t", "que4_t", "wan2_c", "dao4">>,
       <<"zheng4", "que4_t", "wan2_c", "dao4">> >>

quoted(a) == <<"'">> \o a \o <<"'">>

\* "student answer 'actual' is wrong. The correct answer should be 'correct'"
wrong_answer_text(actual, correct) ==
    StudentAnswerT \o quoted(actual) \o <<"xi4_t">> \o ErrorT \o <<"ge3", "fw.">>
      \o <<"zheng4", "que4_t", "da2", "an4", "ying_t", "gai1_t", "xi4_t">>
      \o quoted(correct)

\* The replacement of the error-analysis section
error_analysis_text(actual, correct) ==
    ErrorAnalysisT \o <<"mag", " ", "*", "*">> \o StudentAnswerT
      \o <<"fen1", "xi1", "*", "*", "fw:">>
      \o <<"xue2_t", "sheng1", "tian2", "zo2">> \o quoted(actual)
      \o <<"fw,", "ni1", "go3_t", "da2", "an4", "xi4_t">> \o ErrorT \o <<"ge3", "fw.">>
      \o <<"zheng4", "que4_t", "da2", "an4", "ying_t", "gai1_t", "xi4_t">>
      \o quoted(correct) \o <<"fw.">>
      \o <<"xue2_t", "sheng1", "ke3", "neng2", "dui4_t", "yuan2", "wen2", "zhong1",
           "ge3", "guan1_t", "jian4_t", "ci2_t", "hui4_t", "li3", "jie3", "you3",
           "pian1", "cha1", "fw,", "huo4", "zhe3", "xi4_t", "shen3_t", "ti2_t",
           "m4", "gou4_t", "zi3", "xi4_s", "fw.">>

wrong_correct_patterns(ai, actual) ==
    << StudentAnswerT \o quoted(ai) \o FullyCorrectT,
       StudentAnswerT \o quoted(actual) \o FullyCorrectT,
       StudentAnswerS \o quoted(ai) \o FullyCorrectS,
       StudentAnswerS \o quoted(actual) \o FullyCorrectS,
       AnswerWord \o quoted(ai) \o FullyCorrectS,
       AnswerWord \o quoted(actual) \o FullyCorrectS,
       FoundInTextT,
       FoundInTextS,
       FoundSynonymT >>

RECURSIVE replace_each(_, _, _)
replace_each(s, pats, new) ==
    IF pats = <<>> THEN s
    ELSE replace_each(replace(s, Head(pats), new), Tail(pats), new)

RECURSIVE replace_positive(_, _)
replace_positive(s, phrases) ==
    IF phrases = <<>> THEN s
    ELSE LET ph == Head(phrases)
             at == find(s, ph)
             window == SubSeq(s, 1, IF at - 1 + 50 < Len(s) THEN at - 1 + 50 ELSE Len(s))
         IN replace_positive(
                IF at > 0 /\ ~contains(window, ErrorT) THEN replace(s, ph, Unable) ELSE s,
                Tail(phrases))

\* Step 1: the quoted wrong answer is replaced by the actual one
fix_quoted_answer(e, ai, actual) ==
    IF ai = <<>> THEN e
    ELSE replace(replace(replace(replace(e,
            YourAnswer \o ai, YourAnswer \o actual),
            UserAnswerQ \o ai \o <<"'">>, UserAnswerQ \o actual \o <<"'">>),
            StudentAnswerS \o quoted(ai), StudentAnswerS \o quoted(actual)),
            StudentAnswerT \o quoted(ai), StudentAnswerT \o quoted(actual))

\* Step 2: praise of a wrong answer is rewritten
fix_wrong_praise(e, ai, actual, correct_text) ==
    LET e1 == replace_each(e, wrong_correct_patterns(ai, actual),
                           wrong_answer_text(actual, correct_text))
        rep == error_analysis_text(actual, correct_text)
        e2 == re_sub(e1, ErrorAnalysisT \o StudentAnswerT, FullyCorrectT, "[", FALSE, rep)
        e3 == re_sub(e2, ErrorAnalysisS \o StudentAnswerS, FullyCorrectS, "[", FALSE, rep)
        e4 == re_sub(e3, StudentAnswerT, FullyCorrectT, "fw.", TRUE, rep)
        e5 == re_sub(e4, StudentAnswerS, FullyCorrectS, "fw.", TRUE, rep)
    IN replace_positive(e5, positive_phrases)

\* actual_answers_map.get(question_number, '')
actual_answer(ctx, qn) ==
    IF \E i \in 1..Len(ctx) : ctx[i].sub_question_number = qn
    THEN LET i == CHOOSE k \in 1..Len(ctx) : ctx[k].sub_question_number = qn
         IN ctx[i].user_answer
    ELSE <<>>

normalize(a) == lower(strip(a))

\* The loop body without its correction: the model's echo is trusted
fix_user_answer_trusting(r, ctx) == r

\* One pass of the loop body over one result of the payload
fix_user_answer(r, ctx) ==
    LET ai == r.user_answer
        actual == actual_answer(ctx, r.question_number)
        correct == normalize(r.correct_answer)
        matches == normalize(actual) = correct
        e1 == fix_quoted_answer(r.explanation, ai, actual)
        e2 == IF matches THEN e1 ELSE fix_wrong_praise(e1, ai, actual, r.correct_answer)
    IN IF normalize(ai) # normalize(actual)
       THEN [r EXCEPT !.user_answer = actual,
                      !.is_correct = matches,
                      !.explanation = IF r.explanation # <<>> THEN e2 ELSE r.explanation]
       ELSE r

validate_and_fix_user_answers(results, ctx) ==
    [i \in 1..Len(results) |-> fix_user_answer(results[i], ctx)]

---------------------------------------------------------------------------
(* Schema Validator and response construction in _parse_ai_response       *)

required_fields == <<"results", "final_score", "correct_count", "total_questions">>

\* A check that demands the optional fields as well
has_required_and_optional_fields(payload) ==
    {"results", "final_score", "correct_count", "total_questions",
     "ability_analysis", "skill_breakdown", "strengths", "weaknesses",
     "recommendations"} \subseteq payload.present

has_required_fields(payload) ==
    \A i \in 1..Len(required_fields) : required_fields[i] \in payload.present

\* Fields of AITeacherResponse declared Field(...): all are required
response_fields ==
    {"results", "final_score", "correct_count", "total_questions",
     "ability_analysis", "skill_breakdown", "strengths_detailed",
     "weaknesses_detailed", "strengths", "weaknesses", "recommendations",
     "time_spent"}

\* validate_score_range
score_in_range(v) == FracLeq(Frac(0, 1), v) /\ FracLeq(v, Frac(1, 1))

\* AITeacherResponse(**given): pydantic accepts the construction
model_validates(given, final_score) ==
    /\ response_fields \subseteq given
    /\ score_in_range(final_score)

NoResponse ==
    [results |-> <<>>, final_score |-> Frac(0, 1), correct_count |-> 0,
     total_questions |-> 0, ability_analysis |-> <<>>, skill_breakdown |-> <<>>,
     strengths_detailed |-> <<>>, weaknesses_detailed |-> <<>>,
     strengths |-> <<>>, weaknesses |-> <<>>, recommendations |-> <<>>,
     time_spent |-> 0]

\* Lines 934-951; get(key, value, default) is result_data.get(key, default)
build_response(data, elapsed) ==
    LET get(key, value, default) == IF key \in data.present THEN value ELSE default
    IN [results |-> data.results,
        final_score |-> data.final_score,
        correct_count |-> data.correct_count,
        total_questions |-> data.total_questions,
        ability_analysis |-> get("ability_analysis", data.ability_analysis, <<>>),
        skill_breakdown |-> get("skill_breakdown", data.skill_breakdown, <<>>),
        strengths_detailed |-> get("strengths_detailed", data.strengths_detailed, <<>>),
        weaknesses_detailed |-> get("weaknesses_detailed", data.weaknesses_detailed, <<>>),
        strengths |-> get("strengths", data.strengths, <<>>),
        weaknesses |-> get("weaknesses", data.weaknesses, <<>>),
        recommendations |-> get("recommendations", data.recommendations, <<>>),
        time_spent |-> get("time_spent", data.time_spent, elapsed)]

---------------------------------------------------------------------------
(* Consistency Enforcer: the loop of lines 959-995                        *)

error_keywords ==
    { <<"cuo4", "wu4">>, <<"bu4", "fu2">>, <<"bu4", "zheng4", "que4">>,
      <<"bu4", "dui4">>, <<"shi1", "wu4">>, <<"wen4", "ti2">>, <<"pian1", "cha1">>,
      <<"bu4", "pi3", "pei4">>, <<"bu4", "yi1", "zhi4">>, <<"bu4", "dang4">> }

correct_keywords ==
    { <<"zheng4", "que4">>, <<"zhun3", "que4">>, <<"cheng2", "gong1">>,
      <<"fu2", "he2">>, <<"yi1", "zhi4">>, <<"pi3", "pei4">>, <<"dui4", "ying4">>,
      <<"qia4", "dang4">>, <<"he2", "shi4">> }

has_error_keywords(e) == \E kw \in error_keywords : contains(lower(e), kw)

has_correct_keywords(e) == \E kw \in correct_keywords : contains(lower(e), kw)

answers_match(r) == strip(lower(r.user_answer)) = strip(lower(r.correct_answer))

\* The first rule without its answers_match guard: sentiment alone clears the flag
enforce_consistency_by_sentiment(r) ==
    IF r.is_correct /\ has_error_keywords(r.explanation)
    THEN [r EXCEPT !.is_correct = FALSE]
    ELSE IF ~r.is_correct /\ has_correct_keywords(r.explanation) /\ answers_match(r)
    THEN [r EXCEPT !.is_correct = TRUE]
    ELSE r

enforce_consistency(r) ==
    IF r.is_correct /\ has_error_keywords(r.explanation) /\ ~answers_match(r)
    THEN [r EXCEPT !.is_correct = FALSE]
    ELSE IF ~r.is_correct /\ has_correct_keywords(r.explanation) /\ answers_match(r)
    THEN [r EXCEPT !.is_correct = TRUE]
    ELSE IF ~r.is_correct /\ ~has_error_keywords(r.explanation) /\ answers_match(r)
    THEN [r EXCEPT !.is_correct = TRUE]
    ELSE r

---------------------------------------------------------------------------
(* Aggregate Recalculator: lines 1003-1017                                *)

count_correct(results) == Cardinality({i \in 1..Len(results) : results[i].is_correct})

\* The aggregates left as the model stated them
recalculate_trusting(resp) == resp

recalculate(resp) ==
    LET score_tolerance == Frac(1, 100)
    IN LET actual_correct_count == count_correct(resp.results)
           actual_score == ratio(actual_correct_count, Len(resp.results))
       IN IF \/ resp.correct_count # actual_correct_count
             \/ FracDiffGt(resp.final_score, actual_score, score_tolerance)
          THEN [resp EXCEPT !.correct_count = actual_correct_count,
                            !.final_score = actual_score]
          ELSE resp

---------------------------------------------------------------------------
(* Skill Analytics Reconciler: _validate_and_fix_skill_analysis           *)
(* Skill names are compared as whole strings only, so a display name is   *)
(* one string: "zh:" followed by the tag it translates.                   *)

skill_name_map ==
    << <<"vocabulary", "zh:vocabulary">>, <<"detail", "zh:detail">>,
       <<"inference", "zh:inference">>, <<"main-idea", "zh:main-idea">>,
       <<"structure", "zh:structure">>, <<"sequencing", "zh:sequencing">>,
       <<"cultural-context", "zh:cultural-context">>,
       <<"critical-thinking", "zh:critical-thinking">>,
       <<"emotional-tone", "zh:emotional-tone">>,
       <<"scientific-reasoning", "zh:scientific-reasoning">>,
       <<"narrative-structure", "zh:narrative-structure">> >>

\* skill_name_map.get(skill_type, skill_type)
display_name(skill_type) ==
    IF \E i \in 1..Len(skill_name_map) : skill_name_map[i][1] = skill_type
    THEN LET i == CHOOSE k \in 1..Len(skill_name_map) : skill_name_map[k][1] = skill_type
         IN skill_name_map[i][2]
    ELSE skill_type

\* The reverse lookup of lines 2081-2085; "" when no tag maps to the name
corresponding_skill_type(skill_name) ==
    IF \E i \in 1..Len(skill_name_map) : skill_name_map[i][2] = skill_name
    THEN LET i == CHOOSE k \in 1..Len(skill_name_map) :
                    /\ skill_name_map[k][2] = skill_name
                    /\ \A j \in 1..(k - 1) : skill_name_map[j][2] # skill_name
         IN skill_name_map[i][1]
    ELSE ""

\* Keys of actual_skill_stats in insertion order
RECURSIVE skill_types_of(_)
skill_types_of(ctx) ==
    IF ctx = <<>> THEN <<>>
    ELSE LET before == skill_types_of(SubSeq(ctx, 1, Len(ctx) - 1))
             t == ctx[Len(ctx)].skill_type
         IN IF \E i \in 1..Len(before) : before[i] = t THEN before
            ELSE Append(before, t)

actual_total(ctx, t) == Cardinality({i \in 1..Len(ctx) : ctx[i].skill_type = t})

actual_correct(ctx, results, t) ==
    Cardinality({i \in 1..Len(ctx) :
        /\ ctx[i].skill_type = t
        /\ \E k \in 1..Len(results) :
              /\ results[k].question_number = ctx[i].sub_question_number
              /\ results[k].is_correct})

strength_threshold == Frac(7, 10)
weakness_threshold == Frac(3, 5)
is_strength(m) == FracLeq(strength_threshold, m)
is_weakness(m) == ~is_strength(m) /\ FracLt(m, weakness_threshold)

generate_performance_description(m) ==
    IF FracLeq(Frac(9, 10), m) THEN "excellent"
    ELSE IF FracLeq(Frac(7, 10), m) THEN "good"
    ELSE IF FracLeq(Frac(1, 2), m) THEN "fair"
    ELSE "needs improvement"

skill_mastery(name, m, c, t, desc) ==
    [skill_name |-> name, mastery_level |-> m, correct_count |-> c,
     total_count |-> t, performance_description |-> desc]

\* The model's entry disagrees with the actual statistics (line 2095)
needs_fix(ai_skill, ctx, results) ==
    LET mastery_tolerance == Frac(1, 20)
    IN LET t == corresponding_skill_type(ai_skill.skill_name) IN
       /\ t # ""
       /\ actual_total(ctx, t) > 0
       /\ \/ ai_skill.correct_count # actual_correct(ctx, results, t)
          \/ ai_skill.total_count # actual_total(ctx, t)
          \/ FracDiffGt(ai_skill.mastery_level,
                        ratio(actual_correct(ctx, results, t), actual_total(ctx, t)),
                        mastery_tolerance)

corrected_skill(ai_skill, ctx, results) ==
    LET t == corresponding_skill_type(ai_skill.skill_name)
        c == actual_correct(ctx, results, t)
        n == actual_total(ctx, t)
    IN IF needs_fix(ai_skill, ctx, results)
       THEN skill_mastery(ai_skill.skill_name, ratio(c, n), c, n,
                IF ai_skill.performance_description # ""
                THEN ai_skill.performance_description
                ELSE generate_performance_description(ratio(c, n)))
       ELSE ai_skill

names_of(skills) == [i \in 1..Len(skills) |-> skills[i].skill_name]

details_of(skills) ==
    LET detail_of(skill) == [skill_name |-> skill.skill_name, mastery_level |-> skill.mastery_level]
    IN [i \in 1..Len(skills) |-> detail_of(skills[i])]

strong_skills(breakdown) == SelectSeq(breakdown, LAMBDA k : is_strength(k.mastery_level))

weak_skills(breakdown) == SelectSeq(breakdown, LAMBDA k : is_weakness(k.mastery_level))

\* a or b on lists
list_or(a, b) == IF a # <<>> THEN a ELSE b

generate_ability_analysis(strengths, weaknesses, final_score) ==
    IF strengths = <<>> /\ weaknesses = <<>> THEN <<"balanced">>
    ELSE strengths \o <<"but">> \o weaknesses
           \o << IF FracLeq(Frac(4, 5), final_score) THEN "outstanding"
                 ELSE IF FracLeq(Frac(3, 5), final_score) THEN "good"
                 ELSE "needs practice" >>

generate_fallback_skill_analysis(resp, ctx) ==
    LET types == skill_types_of(ctx)
        breakdown ==
            [i \in 1..Len(types) |->
                LET c == actual_correct(ctx, resp.results, types[i])
                    n == actual_total(ctx, types[i])
                IN skill_mastery(display_name(types[i]), ratio(c, n), c, n,
                                 generate_performance_description(ratio(c, n)))]
    IN [resp EXCEPT
          !.skill_breakdown = breakdown,
          !.strengths = names_of(strong_skills(breakdown)),
          !.weaknesses = names_of(weak_skills(breakdown)),
          !.strengths_detailed = details_of(strong_skills(breakdown)),
          !.weaknesses_detailed = details_of(weak_skills(breakdown)),
          !.ability_analysis =
              generate_ability_analysis(names_of(strong_skills(breakdown)),
                                        names_of(weak_skills(breakdown)),
                                        resp.final_score)]

\* A reconciler that also restates total_questions from the ground truth
validate_and_fix_skill_analysis_recounting(resp, ctx) ==
    [generate_fallback_skill_analysis(resp, ctx) EXCEPT !.total_questions = Len(ctx)]

validate_and_fix_skill_analysis(resp, ctx) ==
    LET ai_skill_breakdown == resp.skill_breakdown
        need_correction ==
            \E i \in 1..Len(ai_skill_breakdown) :
                needs_fix(ai_skill_breakdown[i], ctx, resp.results)
        corrected_skill_breakdown ==
            [i \in 1..Len(ai_skill_breakdown) |->
                corrected_skill(ai_skill_breakdown[i], ctx, resp.results)]
    IN IF need_correction
       THEN [resp EXCEPT
               !.skill_breakdown = corrected_skill_breakdown,
               !.strengths_detailed =
                   list_or(details_of(strong_skills(corrected_skill_breakdown)),
                           resp.strengths_detailed),
               !.weaknesses_detailed =
                   list_or(details_of(weak_skills(corrected_skill_breakdown)),
                           resp.weaknesses_detailed),
               !.strengths =
                   list_or(names_of(strong_skills(corrected_skill_breakdown)),
                           resp.strengths),
               !.weaknesses =
                   list_or(names_of(weak_skills(corrected_skill_breakdown)),
                           resp.weaknesses)]
       ELSE IF ai_skill_breakdown = <<>>
       THEN generate_fallback_skill_analysis(resp, ctx)
       ELSE resp

---------------------------------------------------------------------------
(* Fallback Grader: _create_fallback_response and _basic_answer_check     *)

\* s.split(sep)
RECURSIVE split(_, _)
split(s, sep) ==
    IF \E i \in 1..Len(s) : s[i] = sep
    THEN LET i == CHOOSE k \in 1..Len(s) :
                    s[k] = sep /\ \A j \in 1..(k - 1) : s[j] # sep
         IN <<SubSeq(s, 1, i - 1)>> \o split(SubSeq(s, i + 1, Len(s)), sep)
    ELSE <<s>>

legacy_positions == <<"i", "ii", "iii">>

\* The answer given for unit i of a fill-in-blank question (lines 1677-1692)
fallback_fill_answer(ua, answered, key, i) ==
    IF ~answered THEN <<>>
    ELSE IF DOMAIN ua.fill_in_answers # {} THEN dict_get(ua.fill_in_answers, key)
    ELSE IF ua.selected_option # <<>>
    THEN LET answers == split(ua.selected_option, ",")
         IN IF i <= Len(answers) THEN strip(answers[i]) ELSE <<>>
    ELSE <<>>

\* user_timeline_answers.get(position, "") (lines 1719-1739)
fallback_timeline_answer(ua, answered, position) ==
    IF ~answered THEN <<>>
    ELSE IF DOMAIN ua.timeline_answers # {} THEN dict_get(ua.timeline_answers, position)
    ELSE IF ua.selected_option # <<>>
    THEN LET answers == split(ua.selected_option, ",")
         IN IF \E k \in 1..Len(legacy_positions) :
                   legacy_positions[k] = position /\ k <= Len(answers)
            THEN LET k == CHOOSE j \in 1..Len(legacy_positions) :
                            legacy_positions[j] = position
                 IN strip(answers[k])
            ELSE <<>>
    ELSE <<>>

basic_answer_check(q, answers) ==
    LET ua == answer_map(answers, q.id) IN
    IF ~has_answer(answers, q.id) THEN FALSE
    ELSE IF q.type = MULTIPLE_CHOICE
    THEN is_valid_answer(ua.selected_option) /\ strip(ua.selected_option) = q.correctAnswer
    ELSE IF q.type = FILL_IN_BLANK /\ q.units # <<>>
    THEN \A i \in 1..Len(q.units) :
            /\ DOMAIN ua.fill_in_answers # {}
            /\ strip(lower(dict_get(ua.fill_in_answers, q.units[i].key)))
                 = strip(lower(q.units[i].correctAnswer))
    ELSE IF q.type = TIMELINE_SEQUENCING /\ q.units # <<>>
    THEN \A i \in 1..Len(q.units) :
            /\ DOMAIN ua.timeline_answers # {}
            /\ q.units[i].key \in DOMAIN ua.timeline_answers
            /\ ua.timeline_answers[q.units[i].key] = q.units[i].correctAnswer
    ELSE FALSE

\* One graded item: the QuestionResult and whether correct_count was incremented
fallback_result(number, flag, given, correct, counted) ==
    [result |-> [question_number |-> number, is_correct |-> flag,
                 user_answer |-> given, correct_answer |-> correct,
                 explanation |-> <<"di4", "ti2", "fw:">>],
     counted |-> counted]

fallback_items(q, answers, first) ==
    LET ua == answer_map(answers, q.id)
        answered == has_answer(answers, q.id)
    IN
    IF q.type = FILL_IN_BLANK /\ q.units # <<>> THEN
        [i \in 1..Len(q.units) |->
            LET raw == fallback_fill_answer(ua, answered, q.units[i].key, i)
                correct == q.units[i].correctAnswer
                is_sub_correct == lower(strip(raw)) = strip(lower(correct))
            IN IF is_valid_answer(raw)
               THEN fallback_result(first + i - 1, is_sub_correct, strip(raw), correct,
                                    is_sub_correct)
               ELSE fallback_result(first + i - 1, FALSE, NOT_ANSWERED, correct, FALSE)]
    ELSE IF q.type = TIMELINE_SEQUENCING /\ q.units # <<>> THEN
        [i \in 1..Len(q.units) |->
            LET raw == fallback_timeline_answer(ua, answered, q.units[i].key)
                correct == q.units[i].correctAnswer
                is_pos_correct == upper(strip(raw)) = strip(upper(correct))
            IN IF is_valid_answer(raw)
               THEN fallback_result(first + i - 1, is_pos_correct, strip(raw), correct,
                                    is_pos_correct)
               ELSE fallback_result(first + i - 1, FALSE, NOT_ANSWERED, correct, FALSE)]
    ELSE
        LET is_correct == basic_answer_check(q, answers)
        IN << fallback_result(first, is_correct, format_user_answer(q, answers),
                              format_correct_answer(q), is_correct) >>

RECURSIVE fallback_graded(_, _, _)
fallback_graded(qs, answers, first) ==
    IF qs = <<>> THEN <<>>
    ELSE LET items == fallback_items(Head(qs), answers, first)
         IN items \o fallback_graded(Tail(qs), answers, first + Len(items))

\* Keyword arguments _create_fallback_response passes to AITeacherResponse
fallback_given ==
    {"results", "final_score", "correct_count", "total_questions",
     "ability_analysis", "strengths", "weaknesses", "recommendations", "time_spent"}

create_fallback_response(qs, answers, elapsed) ==
    LET graded == fallback_graded(qs, answers, 1)
        results == [i \in 1..Len(graded) |-> graded[i].result]
        correct_count == Cardinality({i \in 1..Len(graded) : graded[i].counted})
    IN [NoResponse EXCEPT
          !.results = results,
          !.final_score = ratio(correct_count, Len(results)),
          !.correct_count = correct_count,
          !.total_questions = Len(results),
          !.ability_analysis = <<"service unavailable">>,
          !.strengths = <<"basic understanding">>,
          !.weaknesses = <<"needs more practice">>,
          !.recommendations = <<"keep practising">>,
          !.time_spent = elapsed]

---------------------------------------------------------------------------
(* The text of a reply.  A text is a sequence of tokens: the characters   *)
(* { } [ ] , : and the space stand for themselves, "dq" for the double    *)
(* quote, "bs" for the backslash, "nl" for the newline, "ctl" for a       *)
(* control character that is no whitespace, "a" for a letter that makes   *)
(* no escape after a backslash, "1" "2" "3" for digits, "fence_json" and  *)
(* "fence" for the code-fence markers (three backquotes with and without  *)
(* the word json), and a word token for the literal true and for each     *)
(* field name that occurs in a text.                                      *)

None == <<"None">>

Least(S) == CHOOSE x \in S : \A y \in S : x <= y

Greatest(S) == CHOOSE x \in S : \A y \in S : y <= x

\* text.find(c) + 1 from position from on (0 when absent)
index_from(text, c, from) ==
    LET found == {k \in from..Len(text) : text[k] = c}
    IN IF found = {} THEN 0 ELSE Least(found)

\* The first position at or after i that holds no whitespace (Len + 1 if none)
skip_space(text, i) ==
    IF i > Len(text) THEN i
    ELSE Least({k \in i..(Len(text) + 1) : k > Len(text) \/ ~IsSpace(text[k])})

\* text.count(c)
count(text, c) == Cardinality({i \in 1..Len(text) : text[i] = c})

without(text, c) == SelectSeq(text, LAMBDA x : x # c)

\* Each character of the bracket scan that _extract_complete_json_from_start
\* and strategy 1 of _try_repair_incomplete_json share.  closes collects the
\* positions at which bracket_count comes back to zero: the first returns
\* at the first of them, the second at the first whose prefix parses.
bracket_closes(text) ==
    LET bracket_char(st, i) ==
            IF st.escape_next THEN [st EXCEPT !.escape_next = FALSE]
            ELSE IF text[i] = "bs" THEN [st EXCEPT !.escape_next = TRUE]
            ELSE IF text[i] = "dq" THEN [st EXCEPT !.in_string = ~@]
            ELSE IF ~st.in_string /\ text[i] = "{" THEN [st EXCEPT !.bracket_count = @ + 1]
            ELSE IF ~st.in_string /\ text[i] = "}"
                 THEN [st EXCEPT !.bracket_count = @ - 1,
                                 !.closes = IF st.bracket_count - 1 = 0 THEN Append(@, i) ELSE @]
            ELSE st
        RECURSIVE bracket_loop(_, _, _)
        bracket_loop(lo, hi, st) ==
            IF lo > hi THEN st
            ELSE IF lo = hi THEN bracket_char(st, lo)
            ELSE LET left == bracket_loop(lo, (lo + hi) \div 2, st)
                 IN IF left.done THEN left ELSE bracket_loop((lo + hi) \div 2 + 1, hi, left)
    IN bracket_loop(1, Len(text),
                    [bracket_count |-> 0, in_string |-> FALSE, escape_next |-> FALSE,
                     closes |-> <<>>, done |-> FALSE]).closes

extract_complete_json_from_start(text) ==
    IF text = <<>> \/ text[1] # "{" \/ bracket_closes(text) = <<>> THEN None
    ELSE SubSeq(text, 1, bracket_closes(text)[1])

is_fence(c) == c \in {"fence", "fence_json"}

\* re.search: the match at the leftmost position that has one, None if none
search_block(text, closed) ==
    LET \* "fence_json" \s* ( { .*? } ) \s* "fence" tried at the fence at p: group(1) as
        \* <<first, last>>.  The closing marker is a prefix of the opening one.
        closed_block_at(p) ==
            LET q == skip_space(text, p + 1)
                ends == {r \in (q + 1)..Len(text) :
                            /\ text[r] = "}"
                            /\ skip_space(text, r + 1) <= Len(text)
                            /\ is_fence(text[skip_space(text, r + 1)])}
            IN IF text[p] = "fence_json" /\ q <= Len(text) /\ text[q] = "{" /\ ends # {}
               THEN <<q, Least(ends)>>
               ELSE <<0, 0>>
        \* "fence_json" \s* ( { .*? ) "fence" tried at the fence at p
        open_block_at(p) ==
            LET q == skip_space(text, p + 1)
                ends == {t \in (q + 1)..Len(text) : is_fence(text[t])}
            IN IF text[p] = "fence_json" /\ q <= Len(text) /\ text[q] = "{" /\ ends # {}
               THEN <<q, Least(ends) - 1>>
               ELSE <<0, 0>>
    IN LET at(p) == IF closed THEN closed_block_at(p) ELSE open_block_at(p)
           starts == {p \in 1..Len(text) : at(p)[1] # 0}
       IN IF starts = {} THEN None
          ELSE SubSeq(text, at(Least(starts))[1], at(Least(starts))[2])

extract_json_object(text) ==
    LET block == search_block(text, TRUE)
        start_idx == index_from(text, "{", 1)
    IN IF block # None THEN extract_complete_json_from_start(strip(block))
       ELSE IF start_idx = 0 THEN None
       ELSE extract_complete_json_from_start(SubSeq(text, start_idx, Len(text)))

---------------------------------------------------------------------------
(* json.loads on a text: a lexer (strings, numbers, punctuation) and a    *)
(* recursive-descent parser.  A parsed value records, for an object, its  *)
(* set of keys, the value of its question_number (0 if none) and, when    *)
(* its "results" is an array, that array's elements; for an array, items  *)
(* holds its elements.                                                    *)

\* The tokens of a text.  lex_char is one character of the lexer; mode is
\* where the previous character left it: in a string, after a backslash in
\* a string, in a number, after the word true, or between tokens.
lex(text) ==
    LET structural == {"{", "}", "[", "]", ",", ":"}
        digits == {"1", "2", "3"}
        escapable == {"dq", "bs"}
        \* The words that begin with one of the letters b f n r t: after a backslash
        \* in a string their first letter makes an escape, the rest is text
        escape_words == {"results", "total_questions", "final_score", "true"}
        Tok(t, s) == [t |-> t, s |-> s]
    IN LET lex_fail(st) == [st EXCEPT !.ok = FALSE, !.done = TRUE]
           lex_char(st, i) ==
               LET c == text[i]
               IN
               IF st.mode = "escape"
               THEN IF c \in escapable
                    THEN [st EXCEPT !.mode = "string", !.s = Append(@, c)]
                    ELSE IF c \in escape_words
                    THEN [st EXCEPT !.mode = "string", !.s = @ \o <<"escape", c>>]
                    ELSE lex_fail(st)
               ELSE IF st.mode = "string"
               THEN IF c = "dq"
                    THEN [st EXCEPT !.toks = Append(@, Tok("str", st.s)),
                                    !.mode = "between", !.s = <<>>]
                    ELSE IF c = "bs" THEN [st EXCEPT !.mode = "escape"]
                    ELSE IF c \in {"nl", "ctl"} THEN lex_fail(st)
                    ELSE [st EXCEPT !.s = Append(@, c)]
               ELSE IF c \in digits
               THEN IF st.mode = "number"
                    THEN [st EXCEPT !.toks[Len(st.toks)].s = Append(@, c)]
                    ELSE IF st.mode = "true" THEN lex_fail(st)
                    ELSE [st EXCEPT !.toks = Append(@, Tok("number", <<c>>)), !.mode = "number"]
               ELSE IF c = "true"
               THEN IF st.mode \in {"number", "true"} THEN lex_fail(st)
                    ELSE [st EXCEPT !.toks = Append(@, Tok("true", <<>>)), !.mode = "true"]
               ELSE IF IsSpace(c) THEN [st EXCEPT !.mode = "between"]
               ELSE IF c \in structural
               THEN [st EXCEPT !.toks = Append(@, Tok(c, <<>>)), !.mode = "between"]
               ELSE IF c = "dq" THEN [st EXCEPT !.mode = "string", !.s = <<>>]
               ELSE lex_fail(st)
           RECURSIVE lex_loop(_, _, _)
           lex_loop(lo, hi, st) ==
               IF lo > hi THEN st
               ELSE IF lo = hi THEN lex_char(st, lo)
               ELSE LET left == lex_loop(lo, (lo + hi) \div 2, st)
                    IN IF left.done THEN left ELSE lex_loop((lo + hi) \div 2 + 1, hi, left)
           end == lex_loop(1, Len(text),
                           [ok |-> TRUE, done |-> FALSE, toks |-> <<>>, mode |-> "between",
                            s |-> <<>>])
       IN [ok |-> end.ok /\ end.mode \notin {"string", "escape"}, toks |-> end.toks]

RECURSIVE number_value(_)
number_value(ds) ==
    LET digit_value(d) == CASE d = "1" -> 1 [] d = "2" -> 2 [] d = "3" -> 3 [] OTHER -> 0
    IN IF ds = <<>> THEN 0
       ELSE 10 * number_value(SubSeq(ds, 1, Len(ds) - 1)) + digit_value(ds[Len(ds)])

\* A parsed value; results describes the value under the key "results"
Val(kind, empty) ==
    [kind |-> kind, empty |-> empty, keys |-> {}, number |-> 0, items |-> <<>>,
     results |-> [kind |-> "absent", empty |-> TRUE]]

NoValue == [ok |-> FALSE, pos |-> 0, val |-> Val("none", TRUE)]

Parsed(pos, val) == [ok |-> TRUE, pos |-> pos, val |-> val]

\* dict[key] = value: a repeated key keeps its last value
with_member(obj, key, v) ==
    [obj EXCEPT
        !.keys = @ \cup {key},
        !.empty = FALSE,
        !.number = IF key = <<"question_number">>
                   THEN (IF v.kind = "number" THEN v.number ELSE 0) ELSE @,
        !.items = IF key = <<"results">>
                  THEN (IF v.kind = "array" THEN v.items ELSE <<>>) ELSE @,
        !.results = IF key = <<"results">> THEN [kind |-> v.kind, empty |-> v.empty] ELSE @]

\* An array element as the loop over the results sees it: the question
\* number of an object (0 if it has none), -1 for what is not an object
element(v) == IF v.kind = "object" THEN v.number ELSE -1

RECURSIVE parse_value(_, _), parse_members(_, _, _), parse_elements(_, _, _)
parse_value(toks, i) ==
    IF i > Len(toks) THEN NoValue
    ELSE IF toks[i].t = "str" THEN Parsed(i + 1, Val("string", toks[i].s = <<>>))
    ELSE IF toks[i].t = "true" THEN Parsed(i + 1, Val("true", FALSE))
    ELSE IF toks[i].t = "number"
         THEN Parsed(i + 1, [Val("number", FALSE) EXCEPT !.number = number_value(toks[i].s)])
    ELSE IF toks[i].t = "{"
         THEN IF i + 1 <= Len(toks) /\ toks[i + 1].t = "}"
              THEN Parsed(i + 2, Val("object", TRUE))
              ELSE parse_members(toks, i + 1, Val("object", TRUE))
    ELSE IF toks[i].t = "["
         THEN IF i + 1 <= Len(toks) /\ toks[i + 1].t = "]"
              THEN Parsed(i + 2, Val("array", TRUE))
              ELSE parse_elements(toks, i + 1, <<>>)
    ELSE NoValue

\* "key" : value, then a comma and more members, or the closing brace
parse_members(toks, i, obj) ==
    IF i + 1 > Len(toks) \/ toks[i].t # "str" \/ toks[i + 1].t # ":" THEN NoValue
    ELSE LET v == parse_value(toks, i + 2)
             next == with_member(obj, toks[i].s, v.val)
         IN IF ~v.ok \/ v.pos > Len(toks) THEN NoValue
            ELSE IF toks[v.pos].t = "," THEN parse_members(toks, v.pos + 1, next)
            ELSE IF toks[v.pos].t = "}" THEN Parsed(v.pos + 1, next)
            ELSE NoValue

parse_elements(toks, i, elements) ==
    LET v == parse_value(toks, i)
        next == Append(elements, element(v.val))
    IN IF ~v.ok \/ v.pos > Len(toks) THEN NoValue
       ELSE IF toks[v.pos].t = "," THEN parse_elements(toks, v.pos + 1, next)
       ELSE IF toks[v.pos].t = "]"
            THEN Parsed(v.pos + 1, [Val("array", FALSE) EXCEPT !.items = next])
       ELSE NoValue

NoParse == [ok |-> FALSE, val |-> Val("none", TRUE)]

\* json.loads(text): NoParse stands for json.JSONDecodeError
loads(text) ==
    LET l == lex(text)
        v == parse_value(l.toks, 1)
    IN IF l.ok /\ v.ok /\ v.pos = Len(l.toks) + 1
       THEN [ok |-> TRUE, val |-> v.val]
       ELSE NoParse

---------------------------------------------------------------------------
(* _try_repair_incomplete_json: a direct parse, then five strategies,     *)
(* each accepted only when json.loads accepts its candidate.              *)

try_repair_incomplete_json(json_text) ==
    LET \* c * n
        repeat(c, n) == [i \in 1..n |-> c]
        \* Strategy 1: the first prefix that closes its braces and parses; the scan
        \* goes on after a prefix that closes but does not parse
        smart_bracket_match(text) ==
            LET closes == bracket_closes(text)
                good == {k \in 1..Len(closes) : loads(SubSeq(text, 1, closes[k])).ok}
            IN IF good = {} THEN 0 ELSE closes[Least(good)]
        \* Strategy 2: the longest run of whole lines that ends in a brace and parses
        remove_trailing_lines(text) ==
            LET line_ends == {Len(text)} \cup {k - 1 : k \in {j \in 1..Len(text) : text[j] = "nl"}}
                test_json(e) == strip(SubSeq(text, 1, e))
                good == {e \in line_ends : /\ test_json(e) # <<>>
                                           /\ test_json(e)[Len(test_json(e))] = "}"
                                           /\ loads(test_json(e)).ok}
            IN IF good = {} THEN None ELSE test_json(Greatest(good))
        \* Strategy 3: the longest prefix that ends in a brace and parses
        last_valid_brace(text) ==
            LET good == {i \in 1..Len(text) : text[i] = "}" /\ loads(SubSeq(text, 1, i)).ok}
            IN IF good = {} THEN None ELSE SubSeq(text, 1, Greatest(good))
        \* Strategy 4: as many closing braces appended as are missing
        complete_brackets(text) ==
            LET open_brackets == count(text, "{") - count(text, "}")
                test_json == text \o repeat("}", open_brackets)
            IN IF open_brackets > 0 /\ loads(test_json).ok THEN test_json ELSE None
        \* The pattern matched at the brace at p: the index of its closing brace, 0
        \* if it does not match there
        \* Each character of \{[^{}]*(?:\{[^{}]*\}[^{}]*)*\} after its opening brace
        block_end(text, p) ==
            LET block_char(st, i) ==
                    IF text[i] = "{"
                    THEN (IF st.inner THEN [st EXCEPT !.done = TRUE] ELSE [st EXCEPT !.inner = TRUE])
                    ELSE IF text[i] = "}"
                    THEN (IF st.inner THEN [st EXCEPT !.inner = FALSE]
                          ELSE [st EXCEPT !.end = i, !.done = TRUE])
                    ELSE st
                RECURSIVE block_loop(_, _, _)
                block_loop(lo, hi, st) ==
                    IF lo > hi THEN st
                    ELSE IF lo = hi THEN block_char(st, lo)
                    ELSE LET left == block_loop(lo, (lo + hi) \div 2, st)
                         IN IF left.done THEN left ELSE block_loop((lo + hi) \div 2 + 1, hi, left)
            IN block_loop(p + 1, Len(text), [inner |-> FALSE, end |-> 0, done |-> FALSE]).end
        \* Strategy 5: re.finditer from p on, the first match that parses
        RECURSIVE first_block_that_loads(_, _)
        first_block_that_loads(text, p) ==
            LET starts == {q \in p..Len(text) : text[q] = "{" /\ block_end(text, q) # 0}
                q == Least(starts)
                e == block_end(text, q)
            IN IF starts = {} THEN None
               ELSE IF loads(SubSeq(text, q, e)).ok THEN SubSeq(text, q, e)
               ELSE first_block_that_loads(text, e + 1)
    IN LET start_idx == index_from(strip(json_text), "{", 1)
           text == SubSeq(strip(json_text), start_idx, Len(strip(json_text)))
           s1 == smart_bracket_match(text)
       IN IF start_idx = 0 THEN None
          ELSE IF loads(text).ok THEN text
          ELSE IF s1 # 0 THEN SubSeq(text, 1, s1)
          ELSE IF remove_trailing_lines(text) # None THEN remove_trailing_lines(text)
          ELSE IF last_valid_brace(text) # None THEN last_valid_brace(text)
          ELSE IF complete_brackets(text) # None THEN complete_brackets(text)
          ELSE first_block_that_loads(text, 1)

---------------------------------------------------------------------------
(* The parse strategies of _parse_ai_response and the text repairs they   *)
(* apply before json.loads.  The texts carry the field name explanation;  *)
(* reference_text, ability_analysis and the English phrases the quote     *)
(* repairs look for do not occur in them.                                 *)

fix_quotes_in_json(js) ==
    LET \* Each character of content.replace('\\"', '"')
        unescape_quotes(text) ==
            LET unescape_char(st, i) ==
                    IF st.backslash /\ text[i] = "dq"
                    THEN [st EXCEPT !.out = Append(@, "dq"), !.backslash = FALSE]
                    ELSE IF text[i] = "bs"
                    THEN [st EXCEPT !.out = IF st.backslash THEN Append(@, "bs") ELSE @,
                                    !.backslash = TRUE]
                    ELSE [st EXCEPT !.out = (IF st.backslash THEN Append(@, "bs") ELSE @)
                                                \o <<text[i]>>,
                                    !.backslash = FALSE]
                RECURSIVE unescape_loop(_, _, _)
                unescape_loop(lo, hi, st) ==
                    IF lo > hi THEN st
                    ELSE IF lo = hi THEN unescape_char(st, lo)
                    ELSE LET left == unescape_loop(lo, (lo + hi) \div 2, st)
                         IN IF left.done THEN left ELSE unescape_loop((lo + hi) \div 2 + 1, hi, left)
            IN LET end == unescape_loop(1, Len(text),
                                        [out |-> <<>>, backslash |-> FALSE, done |-> FALSE])
               IN IF end.backslash THEN Append(end.out, "bs") ELSE end.out
        \* Each character of content.replace('"', '\\"')
        escape_quotes(text) ==
            LET escape_char(st, i) ==
                    [st EXCEPT !.out = @ \o (IF text[i] = "dq" THEN <<"bs", "dq">>
                                             ELSE <<text[i]>>)]
                RECURSIVE escape_loop(_, _, _)
                escape_loop(lo, hi, st) ==
                    IF lo > hi THEN st
                    ELSE IF lo = hi THEN escape_char(st, lo)
                    ELSE LET left == escape_loop(lo, (lo + hi) \div 2, st)
                         IN IF left.done THEN left ELSE escape_loop((lo + hi) \div 2 + 1, hi, left)
            IN escape_loop(1, Len(text), [out |-> <<>>, done |-> FALSE]).out
        \* "(explanation)"\s*:\s*"([^"]*(?:"[^"]*)*)" tried at p: the positions of
        \* the quote that opens the value and of the last quote of the text
        explanation_value_at(text, p) ==
            LET colon == skip_space(text, p + 3)
                open == skip_space(text, colon + 1)
                later == {k \in (open + 1)..Len(text) : text[k] = "dq"}
            IN IF /\ p + 2 <= Len(text)
                  /\ text[p] = "dq" /\ text[p + 1] = "explanation" /\ text[p + 2] = "dq"
                  /\ colon <= Len(text) /\ text[colon] = ":"
                  /\ open <= Len(text) /\ text[open] = "dq"
                  /\ later # {}
               THEN <<open, Greatest(later)>>
               ELSE <<0, 0>>
    IN LET starts == {p \in 1..Len(js) : explanation_value_at(js, p)[1] # 0}
       IN IF starts = {} THEN js
          ELSE LET p == Least(starts)
                   m == explanation_value_at(js, p)
                   field_content == SubSeq(js, m[1] + 1, m[2] - 1)
               IN SubSeq(js, 1, p - 1)
                  \o <<"dq", "explanation", "dq", ":", " ", "dq">>
                  \o escape_quotes(unescape_quotes(field_content))
                  \o <<"dq">>
                  \o SubSeq(js, m[2] + 1, Len(js))

\* One turn of the loop of _deep_fix_quotes; copy_next stands for the i += 1
\* that copies the character after a backslash
deep_fix_quotes(js) ==
    LET deep_fix_char(st, i) ==
            LET problematic == i + 2 <= Len(js) /\ js[i + 1] = "explanation" /\ js[i + 2] = "dq"
                next_non_space == skip_space(js, i + 1)
            IN
            IF st.copy_next
            THEN [st EXCEPT !.result = Append(@, js[i]), !.copy_next = FALSE]
            ELSE IF js[i] = "dq" /\ ~st.in_string
            THEN [st EXCEPT !.in_string = TRUE, !.result = Append(@, "dq"),
                            !.current_field = problematic]
            ELSE IF js[i] = "dq" /\ st.current_field /\ i > 1 /\ js[i - 1] # "bs"
            THEN IF next_non_space <= Len(js) /\ js[next_non_space] \in {",", "}", "]"}
                 THEN [st EXCEPT !.in_string = FALSE, !.current_field = FALSE,
                                 !.result = Append(@, "dq")]
                 ELSE [st EXCEPT !.result = @ \o <<"bs", "dq">>]
            ELSE IF js[i] = "dq"
            THEN [st EXCEPT !.in_string = FALSE, !.result = Append(@, "dq")]
            ELSE IF js[i] = "bs" /\ st.in_string
            THEN [st EXCEPT !.result = Append(@, "bs"), !.copy_next = TRUE]
            ELSE [st EXCEPT !.result = Append(@, js[i])]
        RECURSIVE deep_fix_loop(_, _, _)
        deep_fix_loop(lo, hi, st) ==
            IF lo > hi THEN st
            ELSE IF lo = hi THEN deep_fix_char(st, lo)
            ELSE LET left == deep_fix_loop(lo, (lo + hi) \div 2, st)
                 IN IF left.done THEN left ELSE deep_fix_loop((lo + hi) \div 2 + 1, hi, left)
    IN deep_fix_loop(1, Len(js),
                     [result |-> <<>>, in_string |-> FALSE, current_field |-> FALSE,
                      copy_next |-> FALSE, done |-> FALSE]).result

\* The second substitution, [\u0000-\u001F\u007F-\u009F], drops every
\* control character, the newline with them
clean_json_control_characters(js) == without(without(js, "ctl"), "nl")

fix_json_format(js) ==
    LET \* A comma that re.sub(r',(\s*[}\]])', r'\1', json_str) removes
        trailing_comma(text, i) ==
            /\ text[i] = ","
            /\ skip_space(text, i + 1) <= Len(text)
            /\ text[skip_space(text, i + 1)] \in {"}", "]"}
        remove_trailing_commas(text) ==
            LET kept == {i \in 1..Len(text) : ~trailing_comma(text, i)}
                dropped_before(i) == Cardinality({k \in 1..i : trailing_comma(text, k)})
            IN [j \in 1..Cardinality(kept) |->
                   text[CHOOSE i \in kept : i - dropped_before(i) = j]]
        \* Each character of re.sub(r'\n\s*\n', '\n', json_str): in a run of
        \* whitespace, what lies between its first and its last newline goes, the
        \* last newline included
        collapse_blank_lines(text) ==
            LET blank_line_char(st, i) ==
                    IF text[i] = "nl"
                    THEN [st EXCEPT !.out = IF st.after_newline THEN @ ELSE Append(@, "nl"),
                                    !.held = <<>>, !.after_newline = TRUE]
                    ELSE IF IsSpace(text[i]) /\ st.after_newline
                    THEN [st EXCEPT !.held = Append(@, text[i])]
                    ELSE [st EXCEPT !.out = (@ \o st.held) \o <<text[i]>>,
                                    !.held = <<>>, !.after_newline = FALSE]
                RECURSIVE blank_line_loop(_, _, _)
                blank_line_loop(lo, hi, st) ==
                    IF lo > hi THEN st
                    ELSE IF lo = hi THEN blank_line_char(st, lo)
                    ELSE LET left == blank_line_loop(lo, (lo + hi) \div 2, st)
                         IN IF left.done THEN left ELSE blank_line_loop((lo + hi) \div 2 + 1, hi, left)
            IN LET end == blank_line_loop(1, Len(text),
                                          [out |-> <<>>, held |-> <<>>, after_newline |-> FALSE,
                                           done |-> FALSE])
               IN end.out \o end.held
    IN collapse_blank_lines(
           remove_trailing_commas(clean_json_control_characters(strip(js))))

\* Every control character other than tab, newline and return is dropped
force_clean_json(js) == without(js, "ctl")

\* NoParse stands for the ValueError raised at the end
tolerant_json_parse(js) ==
    LET \* The index at which the braces opened from start on are closed again, 0
        \* if they never are
        \* Each character of the bracket count that disregards strings
        plain_bracket_match(text, start) ==
            LET plain_bracket_char(st, i) ==
                    IF text[i] = "{" THEN [st EXCEPT !.bracket_count = @ + 1]
                    ELSE IF text[i] = "}"
                    THEN IF st.bracket_count - 1 = 0
                         THEN [st EXCEPT !.bracket_count = 0, !.end = i, !.done = TRUE]
                         ELSE [st EXCEPT !.bracket_count = @ - 1]
                    ELSE st
                RECURSIVE plain_bracket_loop(_, _, _)
                plain_bracket_loop(lo, hi, st) ==
                    IF lo > hi THEN st
                    ELSE IF lo = hi THEN plain_bracket_char(st, lo)
                    ELSE LET left == plain_bracket_loop(lo, (lo + hi) \div 2, st)
                         IN IF left.done THEN left ELSE plain_bracket_loop((lo + hi) \div 2 + 1, hi, left)
            IN plain_bracket_loop(start, Len(text),
                                  [bracket_count |-> 0, end |-> 0, done |-> FALSE]).end
    IN LET unclosed_string == IF count(js, "dq") % 2 = 1 THEN Append(js, "dq") ELSE js
           unclosed_object == IF count(js, "{") > count(js, "}") THEN Append(js, "}") ELSE js
           unclosed_array == IF count(js, "[") > count(js, "]") THEN Append(js, "]") ELSE js
           start == index_from(js, "{", 1)
           end == plain_bracket_match(js, start)
       IN IF loads(js).ok THEN loads(js)
          ELSE IF loads(without(js, "ctl")).ok THEN loads(without(js, "ctl"))
          ELSE IF loads(unclosed_string).ok THEN loads(unclosed_string)
          ELSE IF loads(unclosed_object).ok THEN loads(unclosed_object)
          ELSE IF loads(unclosed_array).ok THEN loads(unclosed_array)
          ELSE IF start # 0 /\ end # 0 THEN loads(SubSeq(js, start, end))
          ELSE NoParse

Strategies == 6

\* The same strategies with the format repair tried before the direct parse
parse_strategies_repair_first(k, x) ==
    CASE k = 1 -> loads(fix_json_format(x))
      [] k = 2 -> loads(fix_quotes_in_json(x))
      [] k = 3 -> loads(deep_fix_quotes(x))
      [] k = 4 -> loads(x)
      [] k = 5 -> loads(force_clean_json(x))
      [] OTHER -> tolerant_json_parse(x)

\* parse_strategies[k - 1][1](x)
parse_strategies(k, x) ==
    CASE k = 1 -> loads(x)
      [] k = 2 -> loads(fix_quotes_in_json(x))
      [] k = 3 -> loads(deep_fix_quotes(x))
      [] k = 4 -> loads(fix_json_format(x))
      [] k = 5 -> loads(force_clean_json(x))
      [] OTHER -> tolerant_json_parse(x)

\* Lines 791-829: the three extraction strategies tried after the bracket
\* match found nothing
extract_by_strategies(text) ==
    LET block == search_block(text, FALSE)
        from_block == IF block = None THEN None
                      ELSE try_repair_incomplete_json(strip(block))
        start_pos == index_from(text, "{", 1)
        ends == {e \in (start_pos + 1)..Len(text) :
                    text[e] = "}" /\ loads(SubSeq(text, start_pos, e)).ok}
    IN IF from_block # None THEN from_block
       ELSE IF start_pos = 0 THEN None
       ELSE IF ends # {} THEN SubSeq(text, start_pos, Greatest(ends))
       ELSE try_repair_incomplete_json(SubSeq(text, start_pos, Len(text)))

\* A check that takes every parsed object, whatever fields it has
parsed_without_required_fields(val) == val.kind = "object"

parsed_has_required_fields(val) ==
    LET \* Lines 884-912: the results are walked for the log, then the required
        \* fields are looked up; FALSE stands for the exception either step raises
        required_keys ==
            {<<"results">>, <<"final_score">>, <<"correct_count">>, <<"total_questions">>}
        results_can_be_listed ==
            \/ val.results.kind = "absent"
            \/ val.results.kind = "array" /\ \A i \in 1..Len(val.items) : val.items[i] >= 0
            \/ val.results.kind \in {"string", "object"} /\ val.results.empty
    IN /\ val.kind = "object"
       /\ results_can_be_listed
       /\ required_keys \subseteq val.keys

---------------------------------------------------------------------------
(* Inputs of one grading request.  The reply of the completion service is *)
(* an input: either the call raises, or its text holds no JSON object, or *)
(* holds one no parsing strategy accepts, or parses to a payload.  A      *)
(* payload is [present, results, final_score, correct_count,              *)
(* total_questions, ability_analysis, skill_breakdown, strengths_detailed,*)
(* weaknesses_detailed, strengths, weaknesses, recommendations,           *)
(* time_spent]; present is the set of top-level keys the reply carries    *)
(* (an absent list reads as [] through .get).  Each result carries        *)
(* question_number, is_correct, user_answer, correct_answer, explanation; *)
(* skill_analysis and reference_text are copied through untouched and are *)
(* left out.  Explanations are strings already: _process_explanation_format *)
(* has nothing to convert.                                                *)

all_keys == response_fields

Payload(results, final_score, correct_count, total_questions) ==
    [present |-> all_keys, results |-> results, final_score |-> final_score,
     correct_count |-> correct_count, total_questions |-> total_questions,
     ability_analysis |-> <<"model text">>, skill_breakdown |-> <<>>,
     strengths_detailed |-> <<>>, weaknesses_detailed |-> <<>>,
     strengths |-> <<>>, weaknesses |-> <<>>,
     recommendations |-> <<"model advice">>, time_spent |-> 0]

NoPayload == Payload(<<>>, Frac(0, 1), 0, 0)

Reply(kind, payload) == [kind |-> kind, payload |-> payload]

Result(qn, flag, given, correct, explanation) ==
    [question_number |-> qn, is_correct |-> flag, user_answer |-> given,
     correct_answer |-> correct, explanation |-> explanation]

\* n multiple-choice questions on one skill, answered as `selected` says
MCQuestions(n, skill_of) ==
    LET MCQuestion(id, skill, correct) ==
            [id |-> id, type |-> MULTIPLE_CHOICE, skillType |-> skill,
             correctAnswer |-> correct, units |-> <<>>, timelineEvents |-> <<>>]
    IN [i \in 1..n |-> MCQuestion(i, skill_of[i], <<"B">>)]

MCAnswers(n, selected) ==
    LET MCAnswer(id, option) ==
            [question_id |-> id, selected_option |-> option,
             fill_in_answers |-> <<>>, timeline_answers |-> <<>>]
    IN [i \in 1..n |-> MCAnswer(i, selected[i])]

\* A payload whose aggregates agree with its own results
ConsistentPayload(results) ==
    Payload(results, ratio(count_correct(results), Len(results)),
            count_correct(results), Len(results))

FailureReplies ==
    {Reply("raises", NoPayload), Reply("no_json", NoPayload),
     Reply("unparseable", NoPayload)}

\* Family 1: one result, every combination of what the model may say of it
EchoInputs ==
    LET Explanations ==
            { <<>>,
              <<"cuo4", "wu4">>,
              <<"zheng4", "que4">>,
              <<"bu4", "zheng4", "que4">>,
              StudentAnswerS \o quoted(<<"A">>) \o FullyCorrectS \o <<"fw.">> }
    IN \E n \in 1..MaxQuestions :
       \E selected \in [1..n -> {<<"B">>, <<"A">>}] :
       \E qn \in 1..(n + 1), flag \in BOOLEAN, e \in Explanations :
       \E given \in {<<"B">>, <<"b">>, <<"A">>}, correct \in {<<"B">>, <<"A">>} :
          /\ questions = MCQuestions(n, [i \in 1..n |-> "vocabulary"])
          /\ user_answers = MCAnswers(n, selected)
          /\ upstream = Reply("payload",
                              ConsistentPayload(<<Result(qn, flag, given, correct, e)>>))

\* Family 2: the shape of the result list and the aggregates the model states
ShapeInputs ==
    LET Scores == {Frac(0, 1), Frac(1, 2), Frac(101, 200), Frac(1, 1), Frac(3, 2)}
        \* The sets of keys a payload may lack: any one key, or every optional one
        DroppedKeys ==
            {{k} : k \in all_keys}
            \cup {{"ability_analysis", "skill_breakdown", "strengths_detailed",
                   "weaknesses_detailed", "strengths", "weaknesses", "recommendations"}}
    IN \E n \in 0..MaxQuestions :
          /\ questions = MCQuestions(n, [i \in 1..n |-> "vocabulary"])
          /\ user_answers = MCAnswers(n, [i \in 1..n |-> <<"A">>])
          /\ \/ \E reply \in FailureReplies : upstream = reply
             \/ \E len \in 0..MaxResults :
                \E qns \in [1..len -> {1, n + 1}], flags \in [1..len -> BOOLEAN] :
                   LET rs == [i \in 1..len |->
                                Result(qns[i], flags[i], <<"A">>, <<"B">>, <<>>)]
                   IN \/ \E fs \in Scores, cc \in 0..MaxResults, tq \in 0..(MaxResults + 1) :
                           upstream = Reply("payload",
                               [Payload(rs, fs, cc, tq) EXCEPT !.time_spent = 30])
                      \/ \E ks \in DroppedKeys :
                           upstream = Reply("payload",
                               [ConsistentPayload(rs) EXCEPT !.present = all_keys \ ks,
                                                             !.time_spent = 30])

SkillEntries(desc) ==
    LET SkillStats ==
            { <<1, 1, Frac(1, 1)>>, <<0, 1, Frac(0, 1)>>,
              <<2, 3, Frac(67, 100)>>, <<1, 1, Frac(1, 2)>> }
    IN { skill_mastery(name, st[3], st[1], st[2], desc) :
           name \in {"zh:vocabulary", "zh:detail", "vocabulary"}, st \in SkillStats }

\* Family 3: every item echoed faithfully, the skill analysis varies
SkillInputs ==
    LET NamedLists == {<<>>, <<"zh:vocabulary">>}
    IN \E n \in 1..MaxQuestions, k \in 0..MaxQuestions :
       \E flags \in [1..n -> BOOLEAN], st \in NamedLists, wk \in NamedLists,
          why \in {<<>>, <<"cuo4", "wu4">>} :
          /\ k <= n
          /\ questions = MCQuestions(n, [i \in 1..n |->
                                           IF i <= k THEN "vocabulary" ELSE "detail"])
          /\ user_answers = MCAnswers(n, [i \in 1..n |-> <<"A">>])
          /\ LET honest == [ConsistentPayload([i \in 1..n |->
                                          Result(i, flags[i], <<"A">>, <<"B">>, why)])
                       EXCEPT !.strengths = st,
                              !.strengths_detailed =
                                  [i \in 1..Len(st) |->
                                      [skill_name |-> st[i], mastery_level |-> Frac(1, 1)]],
                              !.weaknesses = wk,
                              !.weaknesses_detailed =
                                  [i \in 1..Len(wk) |->
                                      [skill_name |-> wk[i], mastery_level |-> Frac(0, 1)]]]
             IN \/ upstream = Reply("payload", honest)
                \/ \E e \in SkillEntries("") \cup SkillEntries("model text") :
                      upstream = Reply("payload", [honest EXCEPT !.skill_breakdown = <<e>>])
                \/ \E e1 \in SkillEntries("model text"), e2 \in SkillEntries("model text") :
                      upstream = Reply("payload",
                                       [honest EXCEPT !.skill_breakdown = <<e1, e2>>])

Unit(key, correct) == [key |-> key, correctAnswer |-> correct]

\* Family 4: composite questions, graded without the model
CompositeInputs ==
    LET FillQuestion(id, skill, units) ==
            [id |-> id, type |-> FILL_IN_BLANK, skillType |-> skill,
             correctAnswer |-> <<>>, units |-> units, timelineEvents |-> <<>>]
        TimelineQuestion(id, skill, units) ==
            [id |-> id, type |-> TIMELINE_SEQUENCING, skillType |-> skill,
             correctAnswer |-> <<>>, units |-> units,
             timelineEvents |-> [i \in 1..Len(units) |-> units[i].key]]
    IN \E fill \in {<<>>} \cup [{"s1", "s2"} -> {<<"b">>, <<" ", "B">>, <<>>}] :
       \E legacy \in {<<>>, <<"b", ",", " ", "x">>, <<"A", ",", "b">>} :
       \E timeline \in {<<>>} \cup [{"i"} -> {<<"a">>}]
                              \cup [{"i", "ii"} -> {<<"a">>, <<"undefined">>}] :
       \E answered \in SUBSET {1, 2} :
       \E blanks \in {<<>>, <<Unit("s1", <<"b">>), Unit("s2", <<"B">>)>>} :
          /\ questions =
               << FillQuestion(1, "detail", blanks),
                  TimelineQuestion(2, "sequencing",
                                   <<Unit("i", <<"A">>), Unit("ii", <<"a">>)>>) >>
          /\ user_answers =
               SelectSeq(<< [question_id |-> 1, selected_option |-> legacy,
                             fill_in_answers |-> fill, timeline_answers |-> <<>>],
                            [question_id |-> 2, selected_option |-> legacy,
                             fill_in_answers |-> <<>>, timeline_answers |-> timeline] >>,
                         LAMBDA a : a.question_id \in answered)
          /\ \E reply \in FailureReplies : upstream = reply

\* Family 5: multiple-choice answers in either case, graded without the model
ChoiceInputs ==
    \E n \in 1..MaxQuestions :
    \E selected \in [1..n -> {<<"B">>, <<"b">>, <<"A">>}] :
    \E reply \in FailureReplies :
       /\ questions = MCQuestions(n, [i \in 1..n |-> "vocabulary"])
       /\ user_answers = MCAnswers(n, selected)
       /\ upstream = reply

Elapsed == 61

---------------------------------------------------------------------------
(* Replies as text, for _parse_ai_response's extraction and parsing.      *)

MaxTextLen == 5

Texts ==
    LET \* Family A: every short text of braces, quotes, backslashes and letters
        BraceTexts ==
            LET BraceAlphabet == {"{", "}", "dq", "bs", "a"}
                \* here is the result: {"a":1} thanks
                ProseAroundObject == <<"a", " ", "{", "dq", "a", "dq", ":", "1", "}", " ", "a">>
            IN UNION {[1..n -> BraceAlphabet] : n \in 0..MaxTextLen} \cup {ProseAroundObject}
        Member(key, value) == <<"dq", key, "dq", ":">> \o value
        digit(k) == CASE k = 1 -> "1" [] k = 2 -> "2" [] OTHER -> "3"
        AggregatesText(n) ==
            Member("final_score", <<"1">>) \o <<",">>
            \o Member("correct_count", <<digit(n)>>) \o <<",">>
            \o Member("total_questions", <<digit(n)>>)
        PayloadTexts ==
            LET ItemText(k) ==
                    <<"{">> \o Member("question_number", <<digit(k)>>) \o <<",">>
                            \o Member("is_correct", <<"true">>) \o <<"}">>
                RECURSIVE ItemTexts(_)
                ItemTexts(n) ==
                    IF n = 1 THEN ItemText(1) ELSE ItemTexts(n - 1) \o <<",">> \o ItemText(n)
                ResultsText(n) == Member("results", <<"[">> \o ItemTexts(n) \o <<"]">>)
                \* A complete payload of n results, the results first or last
                PayloadText(n, results_first) ==
                    IF results_first
                    THEN <<"{">> \o ResultsText(n) \o <<",">> \o AggregatesText(n) \o <<"}">>
                    ELSE <<"{">> \o AggregatesText(n) \o <<",">> \o ResultsText(n) \o <<"}">>
            IN {PayloadText(n, first) : n \in 1..MaxResults, first \in BOOLEAN}
        \* Family B: a payload cut off anywhere, bare, after a line of prose, or in
        \* a json block whose closing fence was or was not reached
        TruncatedTexts ==
            LET Prefixes(text) == {SubSeq(text, 1, n) : n \in 1..Len(text)}
            IN UNION {Prefixes(t) \cup Prefixes(<<"a", "nl">> \o t)
                        \cup Prefixes(<<"fence_json", "nl">> \o t \o <<"nl", "fence">>)
                      : t \in PayloadTexts}
        \* Family C: that payload with one character too many or one too few
        DefectiveTexts ==
            LET \* A payload of one result whose explanation is the last string of the text
                ExplainedText ==
                    <<"{">> \o AggregatesText(1) \o <<",">>
                    \o Member("results",
                              <<"[", "{">> \o Member("question_number", <<"1">>) \o <<",">>
                              \o Member("explanation", <<"dq", "a", "dq">>) \o <<"}", "]">>)
                    \o <<"}">>
                Defects == {",", "ctl", "dq", "bs", "}", "]", "nl", "a"}
                inserted(text, i, c) == SubSeq(text, 1, i) \o <<c>> \o SubSeq(text, i + 1, Len(text))
                deleted(text, i) == SubSeq(text, 1, i - 1) \o SubSeq(text, i + 1, Len(text))
            IN {ExplainedText}
               \cup {inserted(ExplainedText, i, c) : i \in 0..Len(ExplainedText), c \in Defects}
               \cup {deleted(ExplainedText, i) : i \in 1..Len(ExplainedText)}
    IN BraceTexts \cup TruncatedTexts \cup DefectiveTexts

---------------------------------------------------------------------------
(* grade_answers, one action per stage                                    *)

Init ==
    /\ pc = "start"
    /\ (EchoInputs \/ ShapeInputs \/ SkillInputs \/ CompositeInputs
          \/ ChoiceInputs)
    /\ time_spent = Elapsed
    /\ context = <<>>
    /\ result_data = NoPayload
    /\ response = NoResponse
    /\ fallback = [ran |-> FALSE, args |-> NoResponse]
    /\ outcome = "none"
    \* No text is being parsed
    /\ tpc = "off"
    /\ ai_response = <<>>
    /\ json_str = None
    /\ strategy = 0
    /\ parsed = NoParse
    \* No submission is stored, no speech is being synthesised
    /\ submission_store = <<>>
    /\ now = 0
    /\ grading = <<>>
    /\ active_tasks = {}
    /\ streams = <<>>

\* 1. _build_grading_context
BuildContext ==
    /\ pc = "start"
    /\ context' = build_grading_context(questions, user_answers)
    /\ pc' = "built"
    /\ UNCHANGED <<questions, user_answers, time_spent, upstream, result_data,
                   response, fallback, outcome>>
    /\ UNCHANGED <<tpc, ai_response, json_str, strategy, parsed>>
    /\ UNCHANGED <<submission_store, now, grading, active_tasks, streams>>

\* 2-3. _create_grading_prompt, _call_ai_model: an exception goes to the handler
CallModel ==
    /\ pc = "built"
    /\ pc' = IF upstream.kind = "raises" THEN "except" ELSE "called"
    /\ UNCHANGED <<questions, user_answers, time_spent, upstream, context,
                   result_data, response, fallback, outcome>>
    /\ UNCHANGED <<tpc, ai_response, json_str, strategy, parsed>>
    /\ UNCHANGED <<submission_store, now, grading, active_tasks, streams>>

\* _parse_ai_response up to line 912: extraction, parsing strategies, required fields
ExtractAndValidate ==
    /\ pc = "called"
    /\ IF upstream.kind = "payload" /\ has_required_fields(upstream.payload)
       THEN result_data' = upstream.payload /\ pc' = "validated"
       ELSE result_data' = result_data /\ pc' = "except"
    /\ UNCHANGED <<questions, user_answers, time_spent, upstream, context,
                   response, fallback, outcome>>
    /\ UNCHANGED <<tpc, ai_response, json_str, strategy, parsed>>
    /\ UNCHANGED <<submission_store, now, grading, active_tasks, streams>>

\* line 916
ReconcileAnswers ==
    /\ pc = "validated"
    /\ result_data' = [result_data EXCEPT
                         !.results = validate_and_fix_user_answers(@, context)]
    /\ pc' = "reconciled"
    /\ UNCHANGED <<questions, user_answers, time_spent, upstream, context,
                   response, fallback, outcome>>
    /\ UNCHANGED <<tpc, ai_response, json_str, strategy, parsed>>
    /\ UNCHANGED <<submission_store, now, grading, active_tasks, streams>>

\* lines 919-954: the pydantic models are built; _validate_ai_response only logs
ConstructResponse ==
    /\ pc = "reconciled"
    /\ IF model_validates(response_fields, result_data.final_score)
       THEN response' = build_response(result_data, time_spent) /\ pc' = "constructed"
       ELSE response' = response /\ pc' = "except"
    /\ UNCHANGED <<questions, user_answers, time_spent, upstream, context,
                   result_data, fallback, outcome>>
    /\ UNCHANGED <<tpc, ai_response, json_str, strategy, parsed>>
    /\ UNCHANGED <<submission_store, now, grading, active_tasks, streams>>

\* lines 956-1001
EnforceConsistency ==
    /\ pc = "constructed"
    /\ response' = [response EXCEPT
                      !.results = [i \in 1..Len(@) |-> enforce_consistency(@[i])]]
    /\ pc' = "enforced"
    /\ UNCHANGED <<questions, user_answers, time_spent, upstream, context,
                   result_data, fallback, outcome>>
    /\ UNCHANGED <<tpc, ai_response, json_str, strategy, parsed>>
    /\ UNCHANGED <<submission_store, now, grading, active_tasks, streams>>

\* lines 1003-1017
RecalculateAggregates ==
    /\ pc = "enforced"
    /\ response' = recalculate(response)
    /\ pc' = "recalculated"
    /\ UNCHANGED <<questions, user_answers, time_spent, upstream, context,
                   result_data, fallback, outcome>>
    /\ UNCHANGED <<tpc, ai_response, json_str, strategy, parsed>>
    /\ UNCHANGED <<submission_store, now, grading, active_tasks, streams>>

\* lines 1019-1025: the report is returned to the caller
ReconcileSkills ==
    /\ pc = "recalculated"
    /\ response' = validate_and_fix_skill_analysis(response, context)
    /\ pc' = "done"
    /\ outcome' = "report"
    /\ UNCHANGED <<questions, user_answers, time_spent, upstream, context,
                   result_data, fallback>>
    /\ UNCHANGED <<tpc, ai_response, json_str, strategy, parsed>>
    /\ UNCHANGED <<submission_store, now, grading, active_tasks, streams>>

\* The except clause of grade_answers: _create_fallback_response, whose
\* AITeacherResponse(...) raises out of the handler when pydantic rejects it
FallbackGrader ==
    /\ pc = "except"
    /\ LET args == create_fallback_response(questions, user_answers, time_spent)
       IN /\ fallback' = [ran |-> TRUE, args |-> args]
          /\ IF model_validates(fallback_given, args.final_score)
             THEN response' = args /\ outcome' = "report"
             ELSE response' = NoResponse /\ outcome' = "raised"
    /\ pc' = "done"
    /\ UNCHANGED <<questions, user_answers, time_spent, upstream, context, result_data>>
    /\ UNCHANGED <<tpc, ai_response, json_str, strategy, parsed>>
    /\ UNCHANGED <<submission_store, now, grading, active_tasks, streams>>

Next ==
    \/ BuildContext
    \/ CallModel
    \/ ExtractAndValidate
    \/ ReconcileAnswers
    \/ ConstructResponse
    \/ EnforceConsistency
    \/ RecalculateAggregates
    \/ ReconcileSkills
    \/ FallbackGrader

Spec == Init /\ [][Next]_vars

---------------------------------------------------------------------------
(* _parse_ai_response on a reply text, up to the required-field check:    *)
(* extraction, the parse strategies in turn, the required fields.         *)

TextInit ==
    \* No request is being graded
    /\ pc = "off"
    /\ questions = <<>>
    /\ user_answers = <<>>
    /\ time_spent = Elapsed
    /\ upstream = Reply("no_json", NoPayload)
    /\ context = <<>>
    /\ result_data = NoPayload
    /\ response = NoResponse
    /\ fallback = [ran |-> FALSE, args |-> NoResponse]
    /\ outcome = "none"
    /\ tpc = "raw"
    /\ ai_response \in Texts
    /\ json_str = None
    /\ strategy = 0
    /\ parsed = NoParse
    \* No submission is stored, no speech is being synthesised
    /\ submission_store = <<>>
    /\ now = 0
    /\ grading = <<>>
    /\ active_tasks = {}
    /\ streams = <<>>

\* Line 784: the bracket match
ExtractJsonObject ==
    /\ tpc = "raw"
    /\ json_str' = extract_json_object(ai_response)
    /\ tpc' = IF json_str' = None THEN "unmatched" ELSE "matched"
    /\ strategy' = IF json_str' = None THEN 0 ELSE 1
    /\ UNCHANGED <<ai_response, parsed>>
    /\ UNCHANGED <<pc, questions, user_answers, time_spent, upstream, context,
                   result_data, response, fallback, outcome>>
    /\ UNCHANGED <<submission_store, now, grading, active_tasks, streams>>

\* Lines 791-833: the extraction strategies; the exception when all fail
ExtractByStrategies ==
    /\ tpc = "unmatched"
    /\ json_str' = extract_by_strategies(ai_response)
    /\ tpc' = IF json_str' = None THEN "failed" ELSE "repaired"
    /\ strategy' = IF json_str' = None THEN 0 ELSE 1
    /\ UNCHANGED <<ai_response, parsed>>
    /\ UNCHANGED <<pc, questions, user_answers, time_spent, upstream, context,
                   result_data, response, fallback, outcome>>
    /\ UNCHANGED <<submission_store, now, grading, active_tasks, streams>>

\* Lines 857-880: one turn of the loop over parse_strategies
TryStrategy ==
    /\ tpc \in {"matched", "repaired"}
    /\ LET result == parse_strategies(strategy, strip(json_str))
       IN IF result.ok
          THEN /\ parsed' = result
               /\ tpc' = "parsed"
               /\ strategy' = strategy
          ELSE /\ parsed' = parsed
               /\ tpc' = IF strategy = Strategies THEN "failed" ELSE tpc
               /\ strategy' = IF strategy = Strategies THEN strategy ELSE strategy + 1
    /\ UNCHANGED <<ai_response, json_str>>
    /\ UNCHANGED <<pc, questions, user_answers, time_spent, upstream, context,
                   result_data, response, fallback, outcome>>
    /\ UNCHANGED <<submission_store, now, grading, active_tasks, streams>>

\* Lines 884-912: the log of the results and the required fields
CheckRequiredFields ==
    /\ tpc = "parsed"
    /\ tpc' = IF parsed_has_required_fields(parsed.val) THEN "accepted" ELSE "failed"
    /\ UNCHANGED <<ai_response, json_str, strategy, parsed>>
    /\ UNCHANGED <<pc, questions, user_answers, time_spent, upstream, context,
                   result_data, response, fallback, outcome>>
    /\ UNCHANGED <<submission_store, now, grading, active_tasks, streams>>

TextNext ==
    \/ ExtractJsonObject
    \/ ExtractByStrategies
    \/ TryStrategy
    \/ CheckRequiredFields

TextSpec == TextInit /\ [][TextNext]_vars

---------------------------------------------------------------------------
(* The submission store of routes/dse.py: submit_answers and the          *)
(* process_grading background task of each submission.  The event loop    *)
(* runs one coroutine at a time, so each stretch of code between two      *)
(* awaits is one step.  Time is counted in ticks of a fraction of a       *)
(* second; a request is named by its number.                              *)

MaxSubmissions == 3
MaxTicks == 3
TicksPerSecond == 2

\* f"submission_{int(datetime.now().timestamp())}"
submission_id(timestamp) == <<"submission", timestamp \div TicksPerSecond>>

\* The record submit_answers stores for a request
new_submission(request) ==
    [status |-> "processing", progress |-> 0, request |-> request,
     result |-> None, error_detail |-> None]

\* GradingStatusResponse of get_grading_results
get_grading_results(id) ==
    [submission_id |-> id,
     status |-> submission_store[id].status,
     progress |-> submission_store[id].progress,
     result |-> submission_store[id].result,
     error_detail |-> submission_store[id].error_detail]

StoreInit ==
    /\ submission_store = <<>>
    /\ now = 0
    /\ grading = [r \in 1..MaxSubmissions |-> [pc |-> "unsent", submission_id |-> None]]
    \* No request is being graded, no text parsed, no speech synthesised
    /\ pc = "off"
    /\ questions = <<>>
    /\ user_answers = <<>>
    /\ time_spent = Elapsed
    /\ upstream = Reply("no_json", NoPayload)
    /\ context = <<>>
    /\ result_data = NoPayload
    /\ response = NoResponse
    /\ fallback = [ran |-> FALSE, args |-> NoResponse]
    /\ outcome = "none"
    /\ tpc = "off"
    /\ ai_response = <<>>
    /\ json_str = None
    /\ strategy = 0
    /\ parsed = NoParse
    /\ active_tasks = {}
    /\ streams = <<>>

\* The wall clock advances
Tick ==
    /\ now < MaxTicks
    /\ now' = now + 1
    /\ UNCHANGED <<submission_store, grading>>
    /\ UNCHANGED <<pc, questions, user_answers, time_spent, upstream, context,
                   result_data, response, fallback, outcome>>
    /\ UNCHANGED <<tpc, ai_response, json_str, strategy, parsed>>
    /\ UNCHANGED <<active_tasks, streams>>

\* lines 269-298: the record is stored under the id, the task is queued
submit_answers(request) ==
    /\ grading[request].pc = "unsent"
    /\ LET id == submission_id(now)
       IN /\ submission_store' =
                [i \in DOMAIN submission_store \cup {id} |->
                    IF i = id THEN new_submission(request) ELSE submission_store[i]]
          /\ grading' = [grading EXCEPT
                            ![request] = [pc |-> "queued", submission_id |-> id]]
    /\ UNCHANGED now
    /\ UNCHANGED <<pc, questions, user_answers, time_spent, upstream, context,
                   result_data, response, fallback, outcome>>
    /\ UNCHANGED <<tpc, ai_response, json_str, strategy, parsed>>
    /\ UNCHANGED <<active_tasks, streams>>

\* lines 375-381: progress 10, then the await of load_demo_data
begin_grading(request) ==
    /\ grading[request].pc = "queued"
    /\ submission_store' =
          [submission_store EXCEPT ![grading[request].submission_id].progress = 10]
    /\ grading' = [grading EXCEPT ![request].pc = "loading"]
    /\ UNCHANGED now
    /\ UNCHANGED <<pc, questions, user_answers, time_spent, upstream, context,
                   result_data, response, fallback, outcome>>
    /\ UNCHANGED <<tpc, ai_response, json_str, strategy, parsed>>
    /\ UNCHANGED <<active_tasks, streams>>

\* lines 384-393: the data is loaded, progress 30, then the await of grade_answers
data_loaded(request) ==
    /\ grading[request].pc = "loading"
    /\ submission_store' =
          [submission_store EXCEPT ![grading[request].submission_id].progress = 30]
    /\ grading' = [grading EXCEPT ![request].pc = "calling"]
    /\ UNCHANGED now
    /\ UNCHANGED <<pc, questions, user_answers, time_spent, upstream, context,
                   result_data, response, fallback, outcome>>
    /\ UNCHANGED <<tpc, ai_response, json_str, strategy, parsed>>
    /\ UNCHANGED <<active_tasks, streams>>

\* lines 400-406: grade_answers returned the report of this request
grading_completed(request) ==
    /\ grading[request].pc = "calling"
    /\ submission_store' =
          [submission_store EXCEPT
              ![grading[request].submission_id] =
                  [@ EXCEPT !.status = "completed", !.progress = 100,
                            !.result = <<"report", request>>]]
    /\ grading' = [grading EXCEPT ![request].pc = "finished"]
    /\ UNCHANGED now
    /\ UNCHANGED <<pc, questions, user_answers, time_spent, upstream, context,
                   result_data, response, fallback, outcome>>
    /\ UNCHANGED <<tpc, ai_response, json_str, strategy, parsed>>
    /\ UNCHANGED <<active_tasks, streams>>

\* lines 410-419: load_demo_data or grade_answers raised
grading_failed(request) ==
    /\ grading[request].pc \in {"loading", "calling"}
    /\ submission_store' =
          [submission_store EXCEPT
              ![grading[request].submission_id] =
                  [@ EXCEPT !.status = "failed", !.progress = 0,
                            !.error_detail = <<"error", request>>]]
    /\ grading' = [grading EXCEPT ![request].pc = "finished"]
    /\ UNCHANGED now
    /\ UNCHANGED <<pc, questions, user_answers, time_spent, upstream, context,
                   result_data, response, fallback, outcome>>
    /\ UNCHANGED <<tpc, ai_response, json_str, strategy, parsed>>
    /\ UNCHANGED <<active_tasks, streams>>

\* One step of the process_grading task of a request
process_grading(request) ==
    \/ begin_grading(request)
    \/ data_loaded(request)
    \/ grading_completed(request)
    \/ grading_failed(request)

StoreNext ==
    \/ Tick
    \/ \E request \in 1..MaxSubmissions : submit_answers(request)
    \/ \E request \in 1..MaxSubmissions : process_grading(request)

\* A background task that was added is run to its end: every await of
\* process_grading returns or raises
StoreSpec ==
    /\ StoreInit
    /\ [][StoreNext]_vars
    /\ \A request \in 1..MaxSubmissions : WF_vars(process_grading(request))

---------------------------------------------------------------------------
(* The TTS task manager of services/tts_service.py and the calls of       *)
(* synthesize_text_stream and cancel_all_tasks that share it.  A call is  *)
(* named by its number, which also stands for its task_id.                *)

MaxStreams == 4

max_concurrent_tasks == 3

TtsInit ==
    /\ active_tasks = {}
    /\ streams = [call \in 1..MaxStreams |-> "idle"]
    \* No request is being graded, no text parsed, no submission stored
    /\ pc = "off"
    /\ questions = <<>>
    /\ user_answers = <<>>
    /\ time_spent = Elapsed
    /\ upstream = Reply("no_json", NoPayload)
    /\ context = <<>>
    /\ result_data = NoPayload
    /\ response = NoResponse
    /\ fallback = [ran |-> FALSE, args |-> NoResponse]
    /\ outcome = "none"
    /\ tpc = "off"
    /\ ai_response = <<>>
    /\ json_str = None
    /\ strategy = 0
    /\ parsed = NoParse
    /\ submission_store = <<>>
    /\ now = 0
    /\ grading = <<>>

\* lines 359-361: TTSTaskManager.can_start_task, and the return when it is false
can_start_task(call) ==
    /\ streams[call] = "idle"
    /\ streams' = [streams EXCEPT
                      ![call] = IF Cardinality(active_tasks) < max_concurrent_tasks
                                THEN "admitted" ELSE "ended"]
    /\ UNCHANGED active_tasks
    /\ UNCHANGED <<pc, questions, user_answers, time_spent, upstream, context,
                   result_data, response, fallback, outcome>>
    /\ UNCHANGED <<tpc, ai_response, json_str, strategy, parsed>>
    /\ UNCHANGED <<submission_store, now, grading>>

\* lines 364-366: TTSTaskManager.register_task, and the return when it is false
register_task(call) ==
    /\ streams[call] = "admitted"
    /\ IF Cardinality(active_tasks) >= max_concurrent_tasks
       THEN /\ streams' = [streams EXCEPT ![call] = "ended"]
            /\ UNCHANGED active_tasks
       ELSE /\ streams' = [streams EXCEPT ![call] = "registered"]
            /\ active_tasks' = active_tasks \cup {call}
    /\ UNCHANGED <<pc, questions, user_answers, time_spent, upstream, context,
                   result_data, response, fallback, outcome>>
    /\ UNCHANGED <<tpc, ai_response, json_str, strategy, parsed>>
    /\ UNCHANGED <<submission_store, now, grading>>

\* lines 368-399: the text is accepted, the connection made, the task started;
\* the stream then waits for audio in _continue_tts_task
start_stream(call) ==
    /\ streams[call] = "registered"
    /\ streams' = [streams EXCEPT ![call] = "streaming"]
    /\ UNCHANGED active_tasks
    /\ UNCHANGED <<pc, questions, user_answers, time_spent, upstream, context,
                   result_data, response, fallback, outcome>>
    /\ UNCHANGED <<tpc, ai_response, json_str, strategy, parsed>>
    /\ UNCHANGED <<submission_store, now, grading>>

\* The try block is left: by an early return on an unusable text or a failed
\* connection (lines 371-395), or from the stream by the final chunk, a
\* timeout, an error or the sight of a cancellation (lines 247-300, 401-402)
leave_stream(call) ==
    /\ streams[call] \in {"registered", "streaming"}
    /\ streams' = [streams EXCEPT ![call] = "closing"]
    /\ UNCHANGED active_tasks
    /\ UNCHANGED <<pc, questions, user_answers, time_spent, upstream, context,
                   result_data, response, fallback, outcome>>
    /\ UNCHANGED <<tpc, ai_response, json_str, strategy, parsed>>
    /\ UNCHANGED <<submission_store, now, grading>>

\* lines 416-418: the finally clause, TTSTaskManager.unregister_task
unregister_task(call) ==
    /\ streams[call] = "closing"
    /\ active_tasks' = active_tasks \ {call}
    /\ streams' = [streams EXCEPT ![call] = "ended"]
    /\ UNCHANGED <<pc, questions, user_answers, time_spent, upstream, context,
                   result_data, response, fallback, outcome>>
    /\ UNCHANGED <<tpc, ai_response, json_str, strategy, parsed>>
    /\ UNCHANGED <<submission_store, now, grading>>

\* TTSTaskManager.cancel_all_tasks
cancel_all_tasks ==
    /\ active_tasks' = {}
    /\ UNCHANGED streams
    /\ UNCHANGED <<pc, questions, user_answers, time_spent, upstream, context,
                   result_data, response, fallback, outcome>>
    /\ UNCHANGED <<tpc, ai_response, json_str, strategy, parsed>>
    /\ UNCHANGED <<submission_store, now, grading>>

\* One step of a call of synthesize_text_stream
synthesize_text_stream(call) ==
    \/ can_start_task(call)
    \/ register_task(call)
    \/ start_stream(call)
    \/ leave_stream(call)
    \/ unregister_task(call)

TtsNext ==
    \/ \E call \in 1..MaxStreams : synthesize_text_stream(call)
    \/ cancel_all_tasks

TtsSpec == TtsInit /\ [][TtsNext]_vars

---------------------------------------------------------------------------
(* Properties                                                             *)

Returned == pc = "done" /\ outcome = "report"

Raised == pc = "done" /\ outcome = "raised"

\* The ground-truth positions
positions == {context[i].sub_question_number : i \in 1..Len(context)}

\* C1: grade_answers never raises to its caller: whatever the reply of the
\* model (no JSON, unparseable JSON, a required field missing, a call that
\* raises), the request ends with a report.
C1_NeverRaises == pc = "done" => outcome = "report"

\* C2: the Fallback Grader never fails: whenever it runs, the
\* AITeacherResponse it constructs carries every required field, among them
\* skill_breakdown, strengths_detailed and weaknesses_detailed.
C2_FallbackResponseIsValid ==
    fallback.ran =>
        /\ {"skill_breakdown", "strengths_detailed", "weaknesses_detailed"}
              \subseteq fallback_given
        /\ model_validates(fallback_given, fallback.args.final_score)

\* C3: in a returned report every result's user_answer is literally the
\* submitted answer of the ground-truth item at the same position, whatever
\* the model echoed, also when the echo differs in case or whitespace only.
C3_UserAnswerIsSubmittedText ==
    Returned =>
        \A i \in 1..Len(response.results) :
            response.results[i].question_number \in positions =>
                response.results[i].user_answer
                    = actual_answer(context, response.results[i].question_number)

\* C4: in a returned report correct_count is the number of results flagged
\* correct, whatever count the model stated; the Fallback Grader's own count
\* is the number of results it flagged correct.
C4_CorrectCountIsFlagCount ==
    /\ Returned => response.correct_count = count_correct(response.results)
    /\ fallback.ran =>
          fallback.args.correct_count = count_correct(fallback.args.results)

\* A report whose correct_count replaces a different one stated by the model
C4_Witness ==
    /\ Returned
    /\ response.results # <<>>
    /\ result_data.correct_count # count_correct(response.results)
    /\ response.correct_count = count_correct(response.results)

\* C5: in a returned report final_score is correct_count / total_questions
\* (0 when total_questions is 0).
C5_ScoreIsCountOverTotal ==
    Returned =>
        FracEq(response.final_score,
               ratio(response.correct_count, response.total_questions))

\* C6: in a returned report total_questions is the number of results and the
\* question numbers are exactly 1..total_questions, none twice, none missing.
C6_PositionsAreOneToTotal ==
    Returned =>
        /\ response.total_questions = Len(response.results)
        /\ \A n \in 1..response.total_questions :
              Cardinality({i \in 1..Len(response.results) :
                              response.results[i].question_number = n}) = 1

\* The tags carried by the ground-truth items
skill_tags == {context[i].skill_type : i \in 1..Len(context)}

in_band(m) == FracLeq(weakness_threshold, m) /\ FracLt(m, strength_threshold)

named_in(names, name) == \E i \in 1..Len(names) : names[i] = name

detailed_in(details, name) == \E i \in 1..Len(details) : details[i].skill_name = name

\* C7: in a returned report every skill tag of the ground truth has an entry
\* in skill_breakdown whose correct_count is the number of its items flagged
\* correct and whose total_count is the number of its items.
C7_EverySkillHasActualCounts ==
    Returned =>
        \A t \in skill_tags :
            \E j \in 1..Len(response.skill_breakdown) :
                /\ response.skill_breakdown[j].skill_name = display_name(t)
                /\ response.skill_breakdown[j].correct_count
                      = actual_correct(context, response.results, t)
                /\ response.skill_breakdown[j].total_count = actual_total(context, t)

\* C8: in a returned report no skill whose mastery_level lies in [0.6, 0.7)
\* is named in strengths or in weaknesses.
C8_MiddleBandInNeitherList ==
    Returned =>
        \A j \in 1..Len(response.skill_breakdown) :
            in_band(response.skill_breakdown[j].mastery_level) =>
                /\ ~named_in(response.strengths, response.skill_breakdown[j].skill_name)
                /\ ~named_in(response.weaknesses, response.skill_breakdown[j].skill_name)

\* C9: in a returned report every skill with mastery_level >= 0.7 is named
\* in strengths and detailed in strengths_detailed, and every skill with
\* mastery_level < 0.6 is named in weaknesses and detailed in
\* weaknesses_detailed.
C9_ThresholdsFillTheLists ==
    Returned =>
        \A j \in 1..Len(response.skill_breakdown) :
            LET skill == response.skill_breakdown[j] IN
            /\ is_strength(skill.mastery_level) =>
                  /\ named_in(response.strengths, skill.skill_name)
                  /\ detailed_in(response.strengths_detailed, skill.skill_name)
            /\ is_weakness(skill.mastery_level) =>
                  /\ named_in(response.weaknesses, skill.skill_name)
                  /\ detailed_in(response.weaknesses_detailed, skill.skill_name)

\* The answer substitution scenario: the item at position 3 was answered "B",
\* the model's result for position 3 says "A", correct, correct answer "B"
substitution_scenario ==
    /\ \E i \in 1..Len(context) :
          /\ context[i].sub_question_number = 3
          /\ context[i].user_answer = <<"B">>
    /\ upstream.kind = "payload"
    /\ \E k \in 1..Len(upstream.payload.results) :
          /\ upstream.payload.results[k].question_number = 3
          /\ upstream.payload.results[k].user_answer = <<"A">>
          /\ upstream.payload.results[k].is_correct
          /\ upstream.payload.results[k].correct_answer = <<"B">>

\* C10 as stated: in the answer substitution scenario the returned result
\* for position 3 has user_answer "B" and is_correct false.
C10_SubstitutionGivesFalse ==
    (Returned /\ substitution_scenario) =>
        \A i \in 1..Len(response.results) :
            response.results[i].question_number = 3 =>
                /\ response.results[i].user_answer = <<"B">>
                /\ ~response.results[i].is_correct

\* C10: in the answer substitution scenario the returned result for
\* position 3 has user_answer "B" and is_correct true, the submitted "B"
\* being the correct answer.
C10_SubstitutionGivesTrue ==
    (Returned /\ substitution_scenario) =>
        \A i \in 1..Len(response.results) :
            response.results[i].question_number = 3 =>
                /\ response.results[i].user_answer = <<"B">>
                /\ response.results[i].is_correct

\* The scenario has run to a returned report holding the result of position 3
C10_Witness ==
    /\ Returned
    /\ substitution_scenario
    /\ \E i \in 1..Len(response.results) :
          /\ response.results[i].question_number = 3
          /\ response.results[i].user_answer = <<"B">>
          /\ response.results[i].is_correct

\* One application of the Answer Reconciler followed by the Consistency Enforcer
reconcile_and_enforce(results, ctx) ==
    [i \in 1..Len(results) |-> enforce_consistency(fix_user_answer(results[i], ctx))]

\* C11: reconciliation is idempotent: the Answer Reconciler followed by the
\* Consistency Enforcer, applied to results both have already processed,
\* changes no user_answer, no is_correct flag and no explanation.
C11_ReconciliationIsIdempotent ==
    pc = "enforced" =>
        reconcile_and_enforce(response.results, context) = response.results

\* The first application changed an answer, a flag and an explanation
C11_Witness ==
    /\ pc = "enforced"
    /\ \E i \in 1..Len(response.results) :
          /\ response.results[i].user_answer # upstream.payload.results[i].user_answer
          /\ response.results[i].is_correct # upstream.payload.results[i].is_correct
          /\ response.results[i].explanation # upstream.payload.results[i].explanation

\* C12: the Fallback Grader marks an item correct exactly when its submitted
\* text equals its correct text after trimming and ignoring case, whatever
\* the kind of item; its correct_count is the number of such items and its
\* final_score is correct_count / N.
C12_FallbackMarksByNormalizedEquality ==
    fallback.ran =>
        LET results == fallback.args.results
            equal == {i \in 1..Len(results) :
                         normalize(results[i].user_answer)
                             = normalize(results[i].correct_answer)}
        IN /\ \A i \in 1..Len(results) : results[i].is_correct <=> i \in equal
           /\ fallback.args.correct_count = Cardinality(equal)
           /\ FracEq(fallback.args.final_score, ratio(Cardinality(equal), Len(results)))


---------------------------------------------------------------------------
(* C13: the extractor on text without a fenced block.                     *)

\* One character of the scan the claim describes: a quote opens or closes a
\* string, a backslash inside a string takes the next character with it,
\* and a brace outside a string changes the depth
matching_brace_char(text, st, i) ==
    IF st.escaped THEN [st EXCEPT !.escaped = FALSE]
    ELSE IF st.in_string /\ text[i] = "bs" THEN [st EXCEPT !.escaped = TRUE]
    ELSE IF text[i] = "dq" THEN [st EXCEPT !.in_string = ~@]
    ELSE IF ~st.in_string /\ text[i] = "{" THEN [st EXCEPT !.depth = @ + 1]
    ELSE IF ~st.in_string /\ text[i] = "}"
         THEN IF st.depth - 1 = 0
              THEN [st EXCEPT !.depth = 0, !.end = i, !.done = TRUE]
              ELSE [st EXCEPT !.depth = @ - 1]
    ELSE st

RECURSIVE matching_brace_loop(_, _, _, _)
matching_brace_loop(text, lo, hi, st) ==
    IF lo > hi THEN st
    ELSE IF lo = hi THEN matching_brace_char(text, st, lo)
    ELSE LET left == matching_brace_loop(text, lo, (lo + hi) \div 2, st)
         IN IF left.done THEN left
            ELSE matching_brace_loop(text, (lo + hi) \div 2 + 1, hi, left)

\* The substring from the first opening brace to the brace that brings the
\* depth back to zero, None when there is no such pair
matched_object(text) ==
    LET first == index_from(text, "{", 1)
        end == matching_brace_loop(text, first, Len(text),
                                   [depth |-> 0, in_string |-> FALSE, escaped |-> FALSE,
                                    end |-> 0, done |-> FALSE]).end
    IN IF first = 0 \/ end = 0 THEN None ELSE SubSeq(text, first, end)

no_fence(text) == \A i \in 1..Len(text) : ~is_fence(text[i])

extracted == tpc \in {"matched", "unmatched"}

\* C13: for a text without a fenced block, what the extractor returns is
\* the substring from the first opening brace to the closing brace that
\* brings the depth back to zero, braces in double-quoted strings not
\* counted, and None when there is no opening brace or the depth never
\* returns to zero.
C13_ExtractorReturnsMatchedObject ==
    (extracted /\ no_fence(ai_response)) => json_str = matched_object(ai_response)

---------------------------------------------------------------------------
(* C14 *)

digit_token(k) == CASE k = 1 -> "1" [] k = 2 -> "2" [] OTHER -> "3"

\* The question numbers of the items that occur in a text, whole or cut off
question_numbers(text) ==
    {k \in 1..3 : \E i \in 1..(Len(text) - 4) :
        SubSeq(text, i, i + 4) = <<"dq", "question_number", "dq", ":", digit_token(k)>>}

parsed_question_numbers == {parsed.val.items[i] : i \in 1..Len(parsed.val.items)}

\* C14: whatever the reply text, cut off or not, a payload that extraction,
\* repair and parsing produce and the required-field check accepts holds an
\* item for every question number that occurs in the text; any other text
\* ends in failure.  No accepted payload has lost an item of its input.
C14_RepairDropsNoItem ==
    /\ tpc = "accepted" => question_numbers(ai_response) \subseteq parsed_question_numbers
    /\ tpc \in {"raw", "matched", "unmatched", "repaired", "parsed", "accepted", "failed"}

\* A payload whose last brace was cut off is completed and accepted whole
C14_Witness ==
    /\ tpc = "accepted"
    /\ count(ai_response, "{") > count(ai_response, "}")
    /\ Cardinality(question_numbers(ai_response)) = MaxResults
    /\ question_numbers(ai_response) = parsed_question_numbers

---------------------------------------------------------------------------
(* C15 *)

\* C15: grade_answers raises to its caller exactly when there are no
\* questions: with zero questions it ends in an error and not in a report,
\* and with one question or more it ends in a report.
C15_RaisesOnlyWithoutQuestions ==
    pc = "done" => (outcome = "raised" <=> questions = <<>>)

---------------------------------------------------------------------------
(* C16 *)

\* The submitted answer of the ground truth for the result the model gave
\* at position i (empty when no item has that number), and whether the
\* model's echo of it differs
submitted(i) == actual_answer(context, upstream.payload.results[i].question_number)

echo_differs(i) ==
    normalize(upstream.payload.results[i].user_answer) # normalize(submitted(i))

\* C16: after the Answer Reconciler, a result whose echoed user_answer
\* differed from the submitted answer is flagged correct exactly when the
\* normalized submitted answer equals the normalized correct_answer of the
\* result; a result whose echo matched keeps the flag the model gave it.
C16_ReconcilerFlagRule ==
    pc = "reconciled" =>
        /\ Len(result_data.results) = Len(upstream.payload.results)
        /\ \A i \in 1..Len(result_data.results) :
              result_data.results[i].is_correct =
                 IF echo_differs(i)
                 THEN normalize(submitted(i))
                        = normalize(upstream.payload.results[i].correct_answer)
                 ELSE upstream.payload.results[i].is_correct

\* A wrong echo whose flag the Reconciler turned over
C16_Witness ==
    /\ pc = "reconciled"
    /\ \E i \in 1..Len(result_data.results) :
          /\ echo_differs(i)
          /\ submitted(i) # <<>>
          /\ result_data.results[i].is_correct # upstream.payload.results[i].is_correct

---------------------------------------------------------------------------
(* C17 *)

\* The flag the three rules give a result r
enforced_flag(r) ==
    LET error == has_error_keywords(r.explanation)
        correct == has_correct_keywords(r.explanation)
    IN IF r.is_correct /\ error /\ ~answers_match(r) THEN FALSE
       ELSE IF ~r.is_correct /\ answers_match(r) /\ (correct \/ ~error) THEN TRUE
       ELSE r.is_correct

\* C17: the Consistency Enforcer clears the flag of a result exactly when
\* the flag was true, the explanation holds an error indicator and the
\* answers do not match; it sets the flag exactly when the flag was false,
\* the answers match and the explanation holds a correct indicator or no
\* error indicator; every other result keeps its flag, and no result is
\* changed in anything but its flag.
C17_EnforcerRules ==
    [][(pc = "constructed" /\ pc' = "enforced") =>
          /\ Len(response'.results) = Len(response.results)
          /\ \A i \in 1..Len(response.results) :
                response'.results[i] =
                   [response.results[i] EXCEPT
                       !.is_correct = enforced_flag(response.results[i])]]_vars

\* The Enforcer has set a flag that was false
C17_Witness ==
    /\ pc = "enforced"
    /\ \E i \in 1..Len(response.results) :
          response.results[i].is_correct /\ ~result_data.results[i].is_correct

---------------------------------------------------------------------------
(* C18 *)

\* C18: after the Consistency Enforcer every result whose user_answer
\* equals its correct_answer, case and surrounding whitespace aside, is
\* flagged correct, whatever indicators its explanation holds.
C18_MatchingAnswersAreCorrect ==
    pc = "enforced" =>
        \A i \in 1..Len(response.results) :
            answers_match(response.results[i]) => response.results[i].is_correct

---------------------------------------------------------------------------
(* C19 *)

\* C19: the parsing strategies are tried one after the other in their
\* listed order, the direct parse first; the first that parses the
\* candidate gives the result and none is tried after it, so a candidate
\* that parses as it is comes out as json.loads reads it; when all of them
\* fail the parsing fails.
C19_FirstSuccessWins ==
    /\ [](tpc = "parsed" =>
            LET x == strip(json_str)
            IN /\ parsed.ok
               /\ parsed = parse_strategies(strategy, x)
               /\ \A k \in 1..(strategy - 1) : ~parse_strategies(k, x).ok
               /\ (strategy = 1 <=> loads(x).ok)
               /\ (loads(x).ok => parsed = loads(x)))
    /\ []((tpc = "failed" /\ json_str # None /\ ~parsed.ok) =>
            \A k \in 1..Strategies : ~parse_strategies(k, strip(json_str)).ok)
    /\ [][(tpc \in {"matched", "repaired"}) =>
            ((tpc' = tpc /\ strategy' = strategy + 1 /\ parsed' = parsed)
             \/ (tpc' = "parsed" /\ strategy' = strategy)
             \/ (tpc' = "failed" /\ strategy = Strategies /\ parsed' = parsed))]_vars
    /\ [][(tpc \in {"parsed", "accepted", "failed"}) =>
            (strategy' = strategy /\ parsed' = parsed /\ json_str' = json_str)]_vars

\* The fourth strategy parsed a candidate the first three could not
C19_Witness ==
    /\ tpc = "parsed"
    /\ strategy = 4
    /\ ~loads(strip(json_str)).ok

---------------------------------------------------------------------------
(* C20 *)

optional_fields ==
    {"ability_analysis", "skill_breakdown", "strengths", "weaknesses", "recommendations"}

has_the_four_fields ==
    {"results", "final_score", "correct_count", "total_questions"}
        \subseteq upstream.payload.present

on_llm_path == pc \in {"validated", "reconciled", "constructed", "enforced", "recalculated"}

\* C20: a payload that lacks results, final_score, correct_count or
\* total_questions never enters the LLM path and the Fallback Grader runs;
\* a payload that has the four, with a final_score in range, is never
\* handed to the Fallback Grader and ends in a report, whichever optional
\* fields it lacks, and each optional field it lacks is empty in the
\* response that is constructed.
C20_OnlyTheFourFieldsAreRequired ==
    upstream.kind = "payload" =>
        /\ ~has_the_four_fields =>
              /\ ~on_llm_path
              /\ pc = "done" => fallback.ran
        /\ (has_the_four_fields /\ score_in_range(upstream.payload.final_score)) =>
              /\ pc # "except" /\ ~fallback.ran
              /\ pc = "done" => outcome = "report"
              /\ pc = "constructed" =>
                    \A f \in optional_fields \ upstream.payload.present :
                        response[f] = <<>>

\* A payload without any optional field went through to a report
C20_Witness ==
    /\ Returned /\ ~fallback.ran
    /\ upstream.kind = "payload"
    /\ upstream.payload.present \cap optional_fields = {}
    /\ upstream.payload.results # <<>>

---------------------------------------------------------------------------
\* C21: after the Skill Analytics Reconciler every skill tag of the ground
\* truth has an entry in skill_breakdown under its display name, also when
\* the model's non-empty breakdown omitted the skill or named it otherwise.
C21_ReconcilerAddsOmittedSkills ==
    [][(pc = "recalculated" /\ pc' = "done") =>
          \A t \in skill_tags :
              \E j \in 1..Len(response'.skill_breakdown) :
                  response'.skill_breakdown[j].skill_name = display_name(t)]_vars

\* C22: in a returned report every skill_breakdown entry has
\* mastery_level = correct_count / total_count within 1e-6, also an entry
\* the model gave within 0.05 of the actual value and an entry for a skill
\* the model invented.
C22_MasteryIsCountRatio ==
    Returned =>
        \A j \in 1..Len(response.skill_breakdown) :
            LET k == response.skill_breakdown[j]
            IN k.total_count > 0 =>
                  ~FracDiffGt(k.mastery_level, ratio(k.correct_count, k.total_count),
                              Frac(1, 1000000))

\* The part of a report the Skill Analytics Reconciler must leave alone
graded_part(resp) ==
    <<resp.results, resp.correct_count, resp.final_score, resp.total_questions>>

\* C23: on the LLM path the Answer Reconciler runs before the response is
\* constructed, the Consistency Enforcer runs next, then the Aggregate
\* Recalculator, then the Skill Analytics Reconciler; the Skill Analytics
\* Reconciler changes no result and none of correct_count, final_score and
\* total_questions, so the returned aggregates are those computed from the
\* final flags.
C23_StageOrderAndFrame ==
    [][/\ (pc' = "reconciled" => pc = "validated")
       /\ (pc' = "constructed" => pc = "reconciled")
       /\ (pc' = "enforced" => pc = "constructed")
       /\ (pc' = "recalculated" => pc = "enforced")
       /\ ((pc' = "done" /\ ~fallback'.ran) => pc = "recalculated")
       /\ ((pc = "recalculated" /\ pc' = "done") =>
              /\ graded_part(response') = graded_part(response)
              /\ response'.correct_count = count_correct(response'.results))]_vars

\* A report whose flag was cleared by the Consistency Enforcer, whose
\* aggregates were recalculated and whose skill statistics were corrected
C23_Witness ==
    /\ Returned
    /\ ~fallback.ran
    /\ \E i \in 1..Len(response.results) :
          result_data.results[i].is_correct /\ ~response.results[i].is_correct
    /\ response.correct_count # result_data.correct_count
    /\ response.skill_breakdown # result_data.skill_breakdown
    /\ response.skill_breakdown # <<>>
    /\ result_data.skill_breakdown # <<>>

\* The raw answers the submission holds for the items of the questions, in
\* question order: the per-unit answer of a composite question, the selected
\* option of a single-choice question; `unit` is false for the one item of
\* a composite question that has no units
RECURSIVE raw_answers(_, _)
raw_answers(qs, answers) ==
    IF qs = <<>> THEN <<>>
    ELSE LET q == Head(qs)
             ua == answer_map(answers, q.id)
             given == IF q.type = FILL_IN_BLANK THEN ua.fill_in_answers
                      ELSE ua.timeline_answers
         IN (IF q.type = MULTIPLE_CHOICE
             THEN << [unit |-> TRUE, raw |-> ua.selected_option] >>
             ELSE IF q.units = <<>> THEN << [unit |-> FALSE, raw |-> <<>>] >>
             ELSE [i \in 1..Len(q.units) |->
                     [unit |-> TRUE, raw |-> dict_get(given, q.units[i].key)]])
            \o raw_answers(Tail(qs), answers)

\* C24: the Ground-Truth Context Builder numbers its items 1..N in question
\* order, one per fill-in-blank sub-question, one per sequencing position and
\* one per other question; an item's submitted answer is the trimmed raw
\* answer, or the 'not answered' sentinel exactly when the raw answer is
\* missing, blank, "undefined" or "null"; it is never the empty string.
C24_ContextItemsAreDenseAndClean ==
    pc # "start" =>
        LET raws == raw_answers(questions, user_answers) IN
        /\ Len(context) = Len(raws)
        /\ \A i \in 1..Len(context) :
              /\ context[i].sub_question_number = i
              /\ context[i].user_answer # <<>>
              /\ raws[i].unit =>
                    context[i].user_answer =
                       IF \/ strip(raws[i].raw) = <<>>
                          \/ raws[i].raw \in {<<"undefined">>, <<"null">>}
                       THEN NOT_ANSWERED
                       ELSE strip(raws[i].raw)

\* C26: for the same questions and answers the Fallback Grader produces the
\* item sequence of the Ground-Truth Context Builder: as many items, the same
\* ordinal numbers, and at each position the same submitted-answer text and
\* the same correct-answer text, also when a fill-in-blank or sequencing
\* answer carries only a selected_option.
C26_FallbackItemsAreContextItems ==
    fallback.ran =>
        LET items == build_grading_context(questions, user_answers)
            graded == fallback.args.results
        IN /\ Len(graded) = Len(items)
           /\ \A i \in 1..Len(graded) :
                 /\ graded[i].question_number = items[i].sub_question_number
                 /\ graded[i].user_answer = items[i].user_answer
                 /\ graded[i].correct_answer = items[i].correct_answer

\* C25: in a report returned on the LLM path each result's correct_answer is
\* the correct-answer text of the ground-truth item at its position, so no
\* flag rests on a correct answer the model invented.
C25_CorrectAnswerIsGroundTruth ==
    (Returned /\ ~fallback.ran) =>
        \A i \in 1..Len(response.results) :
            \A k \in 1..Len(context) :
                context[k].sub_question_number = response.results[i].question_number
                   => response.results[i].correct_answer = context[k].correct_answer

\* C27: in a returned report time_spent is the elapsed time the caller
\* supplied, whatever time_spent the model's payload states.
C27_TimeSpentIsCallerElapsed == Returned => response.time_spent = time_spent

\* The requests that were submitted
submitted_requests == {r \in DOMAIN grading : grading[r].pc # "unsent"}

\* C28: any two submit_answers calls, also two within one clock second, get
\* distinct submission identifiers and distinct store entries, so the entry
\* of a submission holds its own request and never the result or the error
\* of the grading task of another submission.
C28_SubmissionsAreIsolated ==
    /\ \A r1 \in submitted_requests, r2 \in submitted_requests :
          r1 # r2 => grading[r1].submission_id # grading[r2].submission_id
    /\ \A r \in submitted_requests :
          LET entry == submission_store[grading[r].submission_id]
          IN /\ entry.request = r
             /\ entry.result \in {None, <<"report", r>>}
             /\ entry.error_detail \in {None, <<"error", r>>}

\* The entry of an identifier is being graded
processing(id) ==
    id \in DOMAIN submission_store /\ submission_store[id].status = "processing"

\* The identifiers submit_answers can give
submission_ids == {submission_id(t) : t \in 0..MaxTicks}

\* C29: every store entry starts with status processing, progress 0 and no
\* result; its status changes at most once, to completed or to failed, and
\* never returns to processing; in every state, seen through
\* get_grading_results, status completed holds exactly when progress is 100
\* and the result is set, and status failed implies progress 0, an
\* error_detail and no result; and every entry that is processing
\* eventually leaves processing.
C29_SubmissionLifecycle ==
    /\ [](\A id \in DOMAIN submission_store :
            LET seen == get_grading_results(id)
            IN /\ seen.status \in {"processing", "completed", "failed"}
               /\ seen.status = "completed"
                     <=> (seen.progress = 100 /\ seen.result # None)
               /\ seen.status = "failed"
                     => /\ seen.progress = 0
                        /\ seen.error_detail # None
                        /\ seen.result = None)
    /\ [][\A id \in DOMAIN submission_store' :
            IF id \in DOMAIN submission_store
            THEN submission_store[id].status # "processing"
                    => submission_store'[id].status = submission_store[id].status
            ELSE /\ submission_store'[id].status = "processing"
                 /\ submission_store'[id].progress = 0
                 /\ submission_store'[id].result = None]_vars
    /\ \A id \in submission_ids : processing(id) ~> ~processing(id)

\* The calls whose task is registered and whose stream has not ended
streams_in_progress ==
    {call \in DOMAIN streams : streams[call] \in {"registered", "streaming", "closing"}}

\* C30: under any interleaving of synthesize_text_stream and
\* cancel_all_tasks calls, at most max_concurrent_tasks streams are in
\* progress, active_tasks holds exactly the identifiers of the streams in
\* progress, and a task whose stream has ended is no longer registered.
C30_StreamsAreBoundedAndTracked ==
    /\ Cardinality(streams_in_progress) <= max_concurrent_tasks
    /\ active_tasks = streams_in_progress
    /\ \A call \in DOMAIN streams : streams[call] = "ended" => call \notin active_tasks

===========================================================================
